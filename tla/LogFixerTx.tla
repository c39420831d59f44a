----------------------------- MODULE LogFixerTx -----------------------------
(***************************************************************************)
(* The write-ahead transaction log of log_fixer_tx: transactions of        *)
(* idempotent file operations, their rollback and the recovery pass that   *)
(* is run after a restart (copilot_core/log_fixer_tx, and the Flask        *)
(* handlers of api/v1/log_fixer_tx.py that drive it).                      *)
(*                                                                         *)
(* The handlers run on the threads of the Waitress pool and share one      *)
(* TransactionManager.  Nothing but the append of a single record is       *)
(* locked: reading the log, the existence tests of one operation, its move *)
(* and one append are each a step, and other threads run between them.     *)
(***************************************************************************)
EXTENDS Naturals, Sequences, FiniteSets

CONSTANTS
  Threads,      \* threads of the server's pool
  Tx,           \* transaction ids; begin_tx draws a fresh ULID, recover sorts them
  Path,         \* paths of files
  Allowed,      \* those under ALLOWED_RENAME_PATHS
  Content,      \* contents of the files that exist at the start
  Blank,        \* content of a file made by touch()
  None,         \* no such file
  Requests,     \* operation lists a client may post
  InitFs,       \* possible initial file systems
  TornWrites,   \* whether a crash may cut off the line that is being appended
  MaxCrashes,   \* bound on crashes
  MaxIOErrors,  \* bound on appends, moves and touches that raise
  MaxCalls      \* bound on rollback and recover requests

Kinds == {"rename", "enable", "disable"}

\* An operation moves src to dst: a rename, or the .disabled marker put on or off.
Op == [kind : Kinds, src : Path, dst : Path]

ASSUME TxAssumption == Tx \subseteq Nat /\ Tx # {}
ASSUME OpsAssumption == Requests \subseteq (Seq(Op) \ {<<>>}) /\ Allowed \subseteq Path
ASSUME FsAssumption ==
  /\ None \notin Content
  /\ Blank \notin Content /\ Blank # None
  /\ InitFs \subseteq [Path -> Content \cup {None}]
  /\ TornWrites \in BOOLEAN
  /\ MaxCrashes \in Nat /\ MaxIOErrors \in Nat /\ MaxCalls \in Nat

VARIABLES
  fs,       \* fs[p]: the content at path p
  log,      \* the lines that are or were a record read_all_records can parse
  tail,     \* how the file ends: in a "whole" line, in an "open" one that lacks
            \* only its newline and is parsed, or in a "torn" one that is not
  req,      \* req[t]: the operations of t, the "op" of its INTENT records
  pc,       \* where each thread is
  job,      \* which request it serves
  cur,      \* the transaction it works on
  todo,     \* the sequence numbers its loop has still to visit
  pending,  \* the transactions its recovery has still to visit
  reply,    \* reply[t]: what the client that posted t was told
  crashes, ioErrors, calls,
  moved,    \* history: the operations of t whose apply changed a file
  base,     \* history: the file system when t began
  impure    \* history: transactions whose undo is not just the reverse moves

sys == <<fs, log, tail>>
thr == <<pc, job, cur, todo, pending>>
cnt == <<crashes, ioErrors, calls>>
hist == <<moved, base, impure>>
vars == <<sys, req, thr, reply, cnt, hist>>

Outcomes == {"APPLIED", "FAILED", "ROLLED_BACK"}
\* Two types name what no reader sees any more: a line whose record is lost.
Lost == {"LOST_INTENT", "LOST_OUTCOME"}
Record == [tx : Tx, seq : Nat, type : Outcomes \cup Lost \cup {"INTENT"}]
PCs == {"idle", "intent", "read", "check", "move", "touch", "log_ok", "log_err", "next"}
Jobs == {"none", "create", "rollback", "recover"}

-----------------------------------------------------------------------------
(* What the log says of a transaction *)

Has(t, type) == \E i \in DOMAIN log : log[i].tx = t /\ log[i].type = type

Logged(t, seq, type) ==
  \E i \in DOMAIN log : log[i] = [tx |-> t, seq |-> seq, type |-> type]

Intents(t) == {log[i].seq : i \in {j \in DOMAIN log : log[j].tx = t /\ log[j].type = "INTENT"}}

\* Mutant of TxState: the first outcome decides.
TxStateFirstOutcome(t) ==
  CASE Has(t, "APPLIED") -> "applied"
    [] ~Has(t, "APPLIED") /\ Has(t, "FAILED") -> "failed"
    [] ~Has(t, "APPLIED") /\ ~Has(t, "FAILED") /\ Has(t, "ROLLED_BACK") -> "rolled_back"
    [] ~(\E o \in Outcomes : Has(t, o)) /\ Has(t, "INTENT") -> "in-flight"
    [] OTHER -> "unknown"

TxState(t) ==
  CASE Has(t, "ROLLED_BACK") -> "rolled_back"
    [] ~Has(t, "ROLLED_BACK") /\ Has(t, "FAILED") -> "failed"
    [] ~Has(t, "ROLLED_BACK") /\ ~Has(t, "FAILED") /\ Has(t, "APPLIED") -> "applied"
    [] ~(\E o \in Outcomes : Has(t, o)) /\ Has(t, "INTENT") -> "in-flight"
    [] OTHER -> "unknown"

InFlight == {t \in Tx : TxState(t) = "in-flight"}

\* The last record is lost: something was written behind it on its line.
LastLost ==
  [log EXCEPT ![Len(log)].type = IF @ = "INTENT" THEN "LOST_INTENT" ELSE "LOST_OUTCOME"]

\* A record appended to a line without a newline shares that line, which does
\* not parse: it is lost, and so is the record of an open line.
Appended(t, seq, type) ==
  CASE tail = "whole" -> Append(log, [tx |-> t, seq |-> seq, type |-> type])
    [] tail = "open" -> LastLost
    [] tail = "torn" -> log

-----------------------------------------------------------------------------
(* The operations *)

\* Mutant of Inverse: the marker is inverted, the paths are not swapped.
InverseSamePaths(op) ==
  [kind |-> CASE op.kind = "rename" -> "rename"
              [] op.kind = "enable" -> "disable"
              [] op.kind = "disable" -> "enable",
   src |-> op.src, dst |-> op.dst]

Inverse(op) ==
  [kind |-> CASE op.kind = "rename" -> "rename"
              [] op.kind = "enable" -> "disable"
              [] op.kind = "disable" -> "enable",
   src |-> op.dst, dst |-> op.src]

Exists(p) == fs[p] # None

\* Mutant of Decide: the conflict of two existing paths is not noticed.
DecideNoConflict(op) ==
  IF Exists(op.src) THEN "move"
  ELSE IF Exists(op.dst) THEN "noop" ELSE IF op.kind = "enable" THEN "touch" ELSE "fail"

\* What apply() decides from the paths it finds.
Decide(op) ==
  CASE op.kind = "rename" ->
         IF ~({op.src, op.dst} \subseteq Allowed) \/ (Exists(op.src) <=> Exists(op.dst))
         THEN "fail"
         ELSE IF Exists(op.src) THEN "move" ELSE "noop"
    [] op.kind = "enable" ->
         IF Exists(op.src) THEN "move" ELSE IF Exists(op.dst) THEN "noop" ELSE "touch"
    [] op.kind = "disable" ->
         IF Exists(op.dst) THEN "noop" ELSE IF Exists(op.src) THEN "move" ELSE "fail"

\* The loop of apply_tx goes up the sequence numbers, that of _rollback_tx down.
IsNext(th, s) ==
  /\ s \in todo[th]
  /\ \A x \in todo[th] : IF job[th] = "create" THEN s <= x ELSE x <= s

OpOf(th, s) ==
  IF job[th] = "create" THEN req[cur[th]][s] ELSE Inverse(req[cur[th]][s])

\* Mutant of RecordType: a rollback that fails writes a type no reader knows.
RecordTypeUnknown(th) ==
  CASE pc[th] = "intent" -> "INTENT"
    [] pc[th] = "log_err" -> IF job[th] = "create" THEN "FAILED" ELSE "ROLLBACK_FAILED"
    [] OTHER -> IF job[th] = "create" THEN "APPLIED" ELSE "ROLLED_BACK"

\* The record a thread is about to append.
RecordType(th) ==
  CASE pc[th] = "intent" -> "INTENT"
    [] pc[th] = "log_err" -> "FAILED"
    [] OTHER -> IF job[th] = "create" THEN "APPLIED" ELSE "ROLLED_BACK"

Goto(th, l) == pc' = [pc EXCEPT ![th] = l]

\* Mutant of Finish: the handler does not look at the result of apply_tx.
FinishOk(th, result) ==
  /\ Goto(th, IF job[th] = "recover" THEN "next" ELSE "idle")
  /\ todo' = [todo EXCEPT ![th] = {}]
  /\ reply' = IF job[th] = "create" THEN [reply EXCEPT ![cur[th]] = "ok"] ELSE reply

\* The end of apply_tx or of _rollback_tx: recover goes on to its next transaction.
Finish(th, result) ==
  /\ Goto(th, IF job[th] = "recover" THEN "next" ELSE "idle")
  /\ todo' = [todo EXCEPT ![th] = {}]
  /\ reply' = IF job[th] = "create" THEN [reply EXCEPT ![cur[th]] = result] ELSE reply

-----------------------------------------------------------------------------
(* POST /transactions: create_transaction *)

Begin(th, t) ==
  /\ pc[th] = "idle"
  /\ req[t] = <<>>
  /\ \E ops \in Requests :
       /\ req' = [req EXCEPT ![t] = ops]
       /\ todo' = [todo EXCEPT ![th] = DOMAIN ops]
  /\ Goto(th, "intent")
  /\ job' = [job EXCEPT ![th] = "create"]
  /\ cur' = [cur EXCEPT ![th] = t]
  /\ base' = [base EXCEPT ![t] = fs]
  /\ impure' = impure \ {t}
  /\ UNCHANGED <<sys, pending, reply, cnt, moved>>

AppendIntent(th, s) ==
  /\ pc[th] = "intent"
  /\ IsNext(th, s)
  /\ log' = Appended(cur[th], s, RecordType(th))
  /\ tail' = "whole"
  /\ todo' = [todo EXCEPT ![th] = @ \ {s}]
  /\ Goto(th, IF todo[th] = {s} THEN "read" ELSE "intent")
  /\ UNCHANGED <<fs, req, job, cur, pending, reply, cnt, hist>>

\* Mutant of ReadIntents: apply_tx runs what was posted, not what was logged.
ReadPosted(th) ==
  /\ pc[th] = "read"
  /\ todo' = [todo EXCEPT ![th] = DOMAIN req[cur[th]]]
  /\ Goto(th, "check")
  /\ UNCHANGED <<sys, req, job, cur, pending, reply, cnt, hist>>

\* apply_tx reads back the INTENT records; with none, all() of no results is True.
ReadIntents(th) ==
  /\ pc[th] = "read"
  /\ IF Intents(cur[th]) = {}
     THEN Finish(th, "ok")
     ELSE /\ todo' = [todo EXCEPT ![th] = Intents(cur[th])]
          /\ Goto(th, "check")
          /\ UNCHANGED reply
  /\ UNCHANGED <<sys, req, job, cur, pending, cnt, hist>>

-----------------------------------------------------------------------------
(* One round of the loop of apply_tx or _rollback_tx *)

\* The existence tests of apply().
Check(th, s) ==
  /\ pc[th] = "check"
  /\ IsNext(th, s)
  /\ LET d == Decide(OpOf(th, s)) IN
       /\ Goto(th, CASE d = "noop" -> "log_ok" [] d = "fail" -> "log_err" [] OTHER -> d)
       /\ impure' = IF d = "noop" /\ job[th] = "create" THEN impure \cup {cur[th]} ELSE impure
  /\ UNCHANGED <<sys, req, job, cur, todo, pending, reply, cnt, moved, base>>

\* History: a change of the files disturbs the undo of every other transaction,
\* and of this one if it is not a plain move or reverses no move of apply.
Recorded(th, s, plain) ==
  /\ moved' = IF job[th] = "create" THEN [moved EXCEPT ![cur[th]] = @ \cup {s}] ELSE moved
  /\ impure' = impure \cup (Tx \ {cur[th]})
                 \cup (IF plain /\ s \in moved'[cur[th]] THEN {} ELSE {cur[th]})

\* shutil.move: os.rename replaces a file that has appeared at dst.
Move(th, s) ==
  /\ pc[th] = "move"
  /\ IsNext(th, s)
  /\ LET op == OpOf(th, s) IN
       /\ Exists(op.src)
       /\ fs' = [fs EXCEPT ![op.dst] = fs[op.src], ![op.src] = None]
       /\ Recorded(th, s, ~Exists(op.dst))
  /\ Goto(th, "log_ok")
  /\ UNCHANGED <<log, tail, req, job, cur, todo, pending, reply, cnt, base>>

\* src has gone since the check: a rename raises; set_enabled tests src again
\* first, and passes silently when it is that test which misses it.
MoveMissing(th, s) ==
  /\ pc[th] = "move"
  /\ IsNext(th, s)
  /\ ~Exists(OpOf(th, s).src)
  /\ \/ Goto(th, "log_err")
     \/ OpOf(th, s).kind # "rename" /\ Goto(th, "log_ok")
  /\ UNCHANGED <<sys, req, job, cur, todo, pending, reply, cnt, hist>>

Touch(th, s) ==
  /\ pc[th] = "touch"
  /\ IsNext(th, s)
  /\ LET p == OpOf(th, s).dst IN
       fs' = [fs EXCEPT ![p] = IF Exists(p) THEN @ ELSE Blank]
  /\ Recorded(th, s, FALSE)
  /\ Goto(th, "log_ok")
  /\ UNCHANGED <<log, tail, req, job, cur, todo, pending, reply, cnt, base>>

\* mkdir, shutil.move or touch raises and has changed no file.
MoveFails(th, s) ==
  /\ pc[th] \in {"move", "touch"}
  /\ IsNext(th, s)
  /\ ioErrors < MaxIOErrors
  /\ ioErrors' = ioErrors + 1
  /\ Goto(th, "log_err")
  /\ UNCHANGED <<sys, req, job, cur, todo, pending, reply, crashes, calls, hist>>

\* Mutant of LogOutcome: the outcome is logged once, for the last operation.
LogLastOutcome(th, s) ==
  /\ pc[th] = "log_ok"
  /\ IsNext(th, s)
  /\ log' = IF todo[th] = {s} THEN Appended(cur[th], s, RecordType(th)) ELSE log
  /\ tail' = IF todo[th] = {s} THEN "whole" ELSE tail
  /\ IF todo[th] = {s}
     THEN Finish(th, "ok")
     ELSE /\ todo' = [todo EXCEPT ![th] = @ \ {s}]
          /\ Goto(th, "check")
          /\ UNCHANGED reply
  /\ UNCHANGED <<fs, req, job, cur, pending, cnt, hist>>

LogOutcome(th, s) ==
  /\ pc[th] = "log_ok"
  /\ IsNext(th, s)
  /\ log' = Appended(cur[th], s, RecordType(th))
  /\ tail' = "whole"
  /\ IF todo[th] = {s}
     THEN Finish(th, "ok")
     ELSE /\ todo' = [todo EXCEPT ![th] = @ \ {s}]
          /\ Goto(th, "check")
          /\ UNCHANGED reply
  /\ UNCHANGED <<fs, req, job, cur, pending, cnt, hist>>

\* Mutant of LogFailure: the loop goes on behind a failure.
LogFailureGoesOn(th, s) ==
  /\ pc[th] = "log_err"
  /\ IsNext(th, s)
  /\ log' = Appended(cur[th], s, RecordType(th))
  /\ tail' = "whole"
  /\ IF todo[th] = {s}
     THEN Finish(th, "error")
     ELSE /\ todo' = [todo EXCEPT ![th] = @ \ {s}]
          /\ Goto(th, "check")
          /\ UNCHANGED reply
  /\ UNCHANGED <<fs, req, job, cur, pending, cnt, hist>>

LogFailure(th, s) ==
  /\ pc[th] = "log_err"
  /\ IsNext(th, s)
  /\ log' = Appended(cur[th], s, RecordType(th))
  /\ tail' = "whole"
  /\ Finish(th, "error")
  /\ UNCHANGED <<fs, req, job, cur, pending, cnt, hist>>

\* An append raises (disk full, fsync, lock), with the record written or not.
\* An error in logging an outcome falls into the handler that logs FAILED; one
\* in logging an INTENT or that FAILED leaves the loop.
AppendError(th, s) ==
  /\ ioErrors < MaxIOErrors
  /\ ioErrors' = ioErrors + 1
  /\ IsNext(th, s)
  /\ \/ /\ pc[th] = "log_ok"
        /\ Goto(th, "log_err")
        /\ UNCHANGED <<todo, reply>>
     \/ /\ pc[th] \in {"intent", "log_err"}
        /\ Finish(th, "error")
  /\ \/ UNCHANGED <<log, tail>>
     \/ /\ tail' = "whole"
        /\ log' = Appended(cur[th], s, RecordType(th))
  /\ UNCHANGED <<fs, req, job, cur, pending, crashes, calls, hist>>

-----------------------------------------------------------------------------
(* POST /transactions/<id>/rollback and POST /recover *)

StartRollback(th, t) ==
  /\ pc[th] = "idle"
  /\ calls < MaxCalls
  /\ TxState(t) \notin {"unknown", "rolled_back"}
  /\ calls' = calls + 1
  /\ job' = [job EXCEPT ![th] = "rollback"]
  /\ cur' = [cur EXCEPT ![th] = t]
  /\ todo' = [todo EXCEPT ![th] = Intents(t)]
  /\ Goto(th, "check")
  /\ UNCHANGED <<sys, req, pending, reply, crashes, ioErrors, hist>>

\* Mutant of StartRecover: only the newest transaction in flight is recovered.
StartRecoverNewest(th) ==
  /\ pc[th] = "idle"
  /\ calls < MaxCalls
  /\ calls' = calls + 1
  /\ job' = [job EXCEPT ![th] = "recover"]
  /\ pending' = [pending EXCEPT ![th] = {t \in InFlight : \A u \in InFlight : u <= t}]
  /\ Goto(th, "next")
  /\ UNCHANGED <<sys, req, cur, todo, reply, crashes, ioErrors, hist>>

StartRecover(th) ==
  /\ pc[th] = "idle"
  /\ calls < MaxCalls
  /\ calls' = calls + 1
  /\ job' = [job EXCEPT ![th] = "recover"]
  /\ pending' = [pending EXCEPT ![th] = InFlight]
  /\ Goto(th, "next")
  /\ UNCHANGED <<sys, req, cur, todo, reply, crashes, ioErrors, hist>>

RecoverNext(th) ==
  /\ pc[th] = "next"
  /\ \/ /\ pending[th] = {}
        /\ Goto(th, "idle")
        /\ UNCHANGED <<cur, todo, pending>>
     \/ \E t \in pending[th] :
          /\ \A u \in pending[th] : t <= u
          /\ pending' = [pending EXCEPT ![th] = @ \ {t}]
          /\ cur' = [cur EXCEPT ![th] = t]
          /\ todo' = [todo EXCEPT ![th] = Intents(t)]
          /\ Goto(th, "check")
  /\ UNCHANGED <<sys, req, job, reply, cnt, hist>>

-----------------------------------------------------------------------------
\* A crash within the append of a record: part of the line is in the file, or
\* all of it but the newline.
Cut(th, s) ==
  /\ pc[th] \in {"intent", "log_ok", "log_err"}
  /\ IsNext(th, s)
  /\ \/ tail = "whole" /\ tail' = "torn" /\ UNCHANGED log
     \/ /\ tail' = IF tail = "whole" THEN "open" ELSE "torn"
        /\ log' = Appended(cur[th], s, RecordType(th))

\* The process dies and is restarted: threads are gone, the files stay.
Crash ==
  /\ crashes < MaxCrashes
  /\ crashes' = crashes + 1
  /\ pc' = [th \in Threads |-> "idle"]
  /\ todo' = [th \in Threads |-> {}]
  /\ pending' = [th \in Threads |-> {}]
  /\ \/ UNCHANGED <<log, tail>>
     \/ TornWrites /\ \E th \in Threads : \E s \in todo[th] : Cut(th, s)
  /\ UNCHANGED <<fs, req, job, cur, reply, ioErrors, calls, hist>>

Init ==
  /\ fs \in InitFs
  /\ log = <<>>
  /\ tail = "whole"
  /\ req = [t \in Tx |-> <<>>]
  /\ pc = [th \in Threads |-> "idle"]
  /\ job = [th \in Threads |-> "none"]
  /\ cur = [th \in Threads |-> CHOOSE t \in Tx : TRUE]
  /\ todo = [th \in Threads |-> {}]
  /\ pending = [th \in Threads |-> {}]
  /\ reply = [t \in Tx |-> "none"]
  /\ crashes = 0 /\ ioErrors = 0 /\ calls = 0
  /\ moved = [t \in Tx |-> {}]
  /\ base = [t \in Tx |-> fs]
  /\ impure = {}

Step(th, s) ==
  \/ AppendIntent(th, s)
  \/ Check(th, s)
  \/ Move(th, s)
  \/ MoveMissing(th, s)
  \/ Touch(th, s)
  \/ LogOutcome(th, s)
  \/ LogFailure(th, s)

Progress(th) ==
  \/ \E s \in todo[th] : Step(th, s)
  \/ ReadIntents(th)
  \/ RecoverNext(th)

Next ==
  \/ \E th \in Threads :
       \/ \E t \in Tx : Begin(th, t) \/ StartRollback(th, t)
       \/ StartRecover(th)
       \/ Progress(th)
       \/ \E s \in todo[th] : MoveFails(th, s) \/ AppendError(th, s)
  \/ Crash

Spec == Init /\ [][Next]_vars

-----------------------------------------------------------------------------
(* Properties *)

\* Every variable has a value of its kind.
TypeOK ==
  /\ fs \in [Path -> Content \cup {None, Blank}]
  /\ log \in Seq(Record)
  /\ tail \in {"whole", "open", "torn"}
  /\ req \in [Tx -> Seq(Op)]
  /\ pc \in [Threads -> PCs]
  /\ job \in [Threads -> Jobs]
  /\ cur \in [Threads -> Tx]
  /\ todo \in [Threads -> SUBSET Nat]
  /\ pending \in [Threads -> SUBSET Tx]
  /\ reply \in [Tx -> {"none", "ok", "error"}]
  /\ crashes \in Nat /\ ioErrors \in Nat /\ calls \in Nat
  /\ moved \in [Tx -> SUBSET Nat]
  /\ base \in [Tx -> [Path -> Content \cup {None, Blank}]]
  /\ impure \subseteq Tx

\* Write-ahead: every outcome in the log comes after the INTENT it is the outcome
\* of.  APPLIED comes after an INTENT that is still read; behind a rollback it
\* may be lost, when a crash cut off its newline and the next append spoiled it.
IntentBeforeOutcome ==
  \A i \in DOMAIN log : log[i].type \in Outcomes =>
    \E j \in 1..(i - 1) :
      /\ log[j].tx = log[i].tx /\ log[j].seq = log[i].seq
      /\ \/ log[j].type = "INTENT"
         \/ log[j].type = "LOST_INTENT" /\ log[i].type # "APPLIED"

\* apply_tx stops at the first failure: the operations logged APPLIED are a
\* prefix of the operations of the transaction that can be read back.
AppliedPrefix ==
  \A t \in Tx : \A s, u \in Intents(t) :
    s < u /\ Logged(t, u, "APPLIED") => Logged(t, s, "APPLIED")

\* What recover relies on: a transaction without an outcome, the only kind it
\* rolls back, has changed files by its first operation at most.
InFlightTouchesOneOp ==
  \A t \in Tx : (\A o \in Outcomes : ~Has(t, o)) =>
    \A s \in moved[t] : \A u \in Intents(t) : s <= u

\* A client told of success (201) has every operation it posted in the log as
\* APPLIED.
OkMeansApplied ==
  \A t \in Tx : reply[t] = "ok" => \A s \in DOMAIN req[t] : Logged(t, s, "APPLIED")

\* With requests served one at a time, content is lost in one way only, also by
\* rollback and by recovery after a crash: the marker is taken off a module whose
\* unmarked name exists too, and the marked file replaces the unmarked one.
OnlyEnableReplaces ==
  [][\A c \in Content : (\E p \in Path : fs[p] = c) /\ (\A p \in Path : fs'[p] # c) =>
       \E th \in Threads : \E s \in todo[th] :
         /\ Move(th, s)
         /\ OpOf(th, s).kind = "enable" /\ fs[OpOf(th, s).dst] = c]_vars

\* With requests served one at a time, an operation is logged as rolled back
\* once: a repeated rollback or a recovery does not undo it again.
RollbackOnce ==
  \A i, j \in DOMAIN log : log[i].type = "ROLLED_BACK" /\ log[i] = log[j] => i = j

\* With requests served one at a time and no torn line, what is logged as rolled
\* back of a transaction is its end, wherever crashes and failing steps cut the
\* rollback: no later operation stays applied on top of one that was undone.
UndoneFromEnd ==
  \A t \in Tx : \A s, u \in Intents(t) :
    s < u /\ Logged(t, s, "ROLLED_BACK") => Logged(t, u, "ROLLED_BACK")

\* A transaction whose operations are all logged as rolled back has given the
\* files back as they were when it began, also when crashes cut its apply or
\* its rollback and a later call finished it; unless somebody else changed
\* files, or some step of it was not the plain move it reverses.
RollbackRestores ==
  \A t \in Tx \ impure :
    Intents(t) # {} /\ (\A s \in Intents(t) : Logged(t, s, "ROLLED_BACK")) => fs = base[t]

\* recover answers only when no transaction is left in flight (one thread, no
\* I/O error, no cut line).
RecoverClears ==
  [][\A th \in Threads :
       pc[th] = "next" /\ pc'[th] = "idle" /\ crashes' = crashes /\ ioErrors = 0
         => InFlight = {}]_vars

\* list_in_flight_tx promises the "in-flight (incomplete) transactions": once
\* no thread is working, a transaction neither failed nor rolled back whose
\* operations are not all applied is one of them.
IncompleteIsInFlight ==
  (\A th \in Threads : pc[th] = "idle") =>
    \A t \in Tx :
      /\ ~Has(t, "FAILED") /\ ~Has(t, "ROLLED_BACK")
      /\ \E s \in Intents(t) : ~Logged(t, s, "APPLIED")
      => t \in InFlight

\* RenameOperation: when both paths exist, fail. A rename replaces no file.
RenameReplacesNoFile ==
  [][\A p \in Path : Exists(p) /\ fs'[p] # fs[p] => fs'[p] = None]_vars

=============================================================================
