-------------------------- MODULE LogFixerTxProofs --------------------------
(***************************************************************************)
(* Proofs about LogFixerTx for every set of threads, transactions, paths   *)
(* and requests: the types, the write-ahead rule, that apply leaves a      *)
(* prefix, that success means applied; and of requests served one at a     *)
(* time, that content is lost by enabling a module with two files only,    *)
(* that an operation is undone once, and from the end, that recovery       *)
(* leaves nothing in flight, and that a transaction which is rolled back   *)
(* to the end has given the files back.                                    *)
(***************************************************************************)
EXTENDS LogFixerTx, TLAPS

Types == Outcomes \cup {"INTENT"}

IntentTypes == {"INTENT", "LOST_INTENT"}

\* Intents(t) of the log l, and those of them together with the lost ones.
IntentsOf(l, t) == {l[i].seq : i \in {j \in DOMAIN l : l[j].tx = t /\ l[j].type = "INTENT"}}
KnownOf(l, t) == {l[i].seq : i \in {j \in DOMAIN l : l[j].tx = t /\ l[j].type \in IntentTypes}}

Working == {"check", "move", "touch", "log_ok", "log_err"}

\* The INTENT records of a transaction number operations it was posted with,
\* and so do the numbers a thread has still to visit.
RequestInv ==
  /\ \A i \in DOMAIN log : log[i].type \in IntentTypes => log[i].seq \in DOMAIN req[log[i].tx]
  /\ \A th \in Threads : todo[th] \subseteq DOMAIN req[cur[th]]

\* An open line holds a record; the line is ended before a creator reads back.
TailInv ==
  /\ tail = "open" => Len(log) > 0 /\ log[Len(log)].type \in Types
  /\ \A th \in Threads : job[th] = "create" =>
       pc[th] # "next" /\ (pc[th] \in {"read"} \cup Working => tail = "whole")

\* A thread in the loop of apply_tx visits INTENTs of the log; one in the loop
\* of _rollback_tx may have read some that are lost since.
LoopInv ==
  \A th \in Threads : pc[th] \in Working =>
    /\ todo[th] \subseteq KnownOf(log, cur[th])
    /\ job[th] = "create" => todo[th] \subseteq Intents(cur[th])

IInv == TypeOK /\ RequestInv /\ TailInv /\ LoopInv /\ IntentBeforeOutcome

-----------------------------------------------------------------------------
(* Lemmas on the log and on the operations *)

\* Appending keeps the log a sequence of records, adds at most the record that
\* is appended, and keeps every old one at its place, but that of an open line.
LEMMA AppendedExtends ==
  ASSUME log \in Seq(Record), NEW t \in Tx, NEW s \in Nat, NEW ty \in Types,
         tail \in {"whole", "open", "torn"}
  PROVE  /\ Appended(t, s, ty) \in Seq(Record)
         /\ Len(log) <= Len(Appended(t, s, ty))
         /\ \A i \in DOMAIN log :
              /\ i \in DOMAIN Appended(t, s, ty)
              /\ Appended(t, s, ty)[i].tx = log[i].tx
              /\ Appended(t, s, ty)[i].seq = log[i].seq
              /\ \/ Appended(t, s, ty)[i] = log[i]
                 \/ /\ tail = "open" /\ i = Len(log) /\ i = Len(Appended(t, s, ty))
                    /\ Appended(t, s, ty)[i].type =
                         IF log[i].type = "INTENT" THEN "LOST_INTENT" ELSE "LOST_OUTCOME"
         /\ \A i \in DOMAIN Appended(t, s, ty) \ DOMAIN log :
              /\ i = Len(log) + 1 /\ tail = "whole"
              /\ Appended(t, s, ty)[i] = [tx |-> t, seq |-> s, type |-> ty]
<1> DEFINE new == [tx |-> t, seq |-> s, type |-> ty]
<1>1. new \in Record
  BY DEF Record, Types
<1>2. CASE tail = "whole"
  <2>1. Appended(t, s, ty) = Append(log, new)
    BY <1>2 DEF Appended
  <2>2. QED
    BY <1>1, <1>2, <2>1
<1>3. CASE tail = "torn"
  <2>1. Appended(t, s, ty) = log
    BY <1>3 DEF Appended
  <2>2. QED
    BY <2>1
<1>4. CASE tail = "open"
  <2> DEFINE old == log[Len(log)]
             gone == [old EXCEPT !.type =
                        IF old.type = "INTENT" THEN "LOST_INTENT" ELSE "LOST_OUTCOME"]
  <2>1. Appended(t, s, ty) = [log EXCEPT ![Len(log)] = gone]
    BY <1>4 DEF Appended, LastLost
  <2>2. Len(log) \in DOMAIN log =>
          /\ gone \in Record /\ gone.tx = old.tx /\ gone.seq = old.seq
          /\ gone.type = IF old.type = "INTENT" THEN "LOST_INTENT" ELSE "LOST_OUTCOME"
    <3>1. Len(log) \in DOMAIN log => old \in Record
      OBVIOUS
    <3>2. QED
      BY <3>1 DEF Record, Lost
  <2> HIDE DEF gone
  <2>3. [log EXCEPT ![Len(log)] = gone] \in Seq(Record)
    <3>1. CASE Len(log) \in DOMAIN log
      BY <2>2, <3>1
    <3>2. CASE Len(log) \notin DOMAIN log
      <4>1. [log EXCEPT ![Len(log)] = gone] = log
        BY <3>2
      <4>2. QED
        BY <4>1
    <3>3. QED
      BY <3>1, <3>2
  <2>4. DOMAIN Appended(t, s, ty) = DOMAIN log /\ Len(Appended(t, s, ty)) = Len(log)
    BY <2>1
  <2>5. QED
    BY <1>4, <2>1, <2>2, <2>3, <2>4
<1>5. QED
  BY <1>2, <1>3, <1>4

\* The operation a thread visits is well formed.
LEMMA OpOfType ==
  ASSUME TypeOK, RequestInv, NEW th \in Threads, NEW s \in todo[th]
  PROVE  OpOf(th, s) \in Op
<1>1. req[cur[th]] \in Seq(Op) /\ s \in DOMAIN req[cur[th]]
  BY DEF TypeOK, RequestInv
<1>2. req[cur[th]][s] \in Op
  BY <1>1
<1>3. \A op \in Op : Inverse(op) \in Op
  BY DEF Inverse, Op, Kinds
<1>4. QED
  BY <1>2, <1>3 DEF OpOf

\* Intents are transaction sequence numbers.
LEMMA IntentsType ==
  ASSUME TypeOK, RequestInv, NEW t \in Tx
  PROVE  /\ Intents(t) \subseteq Nat /\ Intents(t) \subseteq DOMAIN req[t]
         /\ Intents(t) = IntentsOf(log, t) /\ Intents(t) \subseteq KnownOf(log, t)
BY DEF TypeOK, RequestInv, Intents, Record, IntentsOf, KnownOf, IntentTypes

\* The invariant holds of an empty log and idle threads.
LEMMA InitIInv == Init => IInv
<1>1. SUFFICES ASSUME Init PROVE IInv
  OBVIOUS
<1>2. (CHOOSE t \in Tx : TRUE) \in Tx
  BY TxAssumption
<1>a. fs \in [Path -> Content \cup {None, Blank}]
  <2>1. fs \in [Path -> Content \cup {None}]
    BY <1>1, FsAssumption DEF Init
  <2>2. QED
    BY <2>1
<1>b. log \in Seq(Record) /\ req \in [Tx -> Seq(Op)]
  BY <1>1 DEF Init
<1>3. TypeOK
  BY <1>1, <1>2, <1>a, <1>b DEF Init, TypeOK, PCs, Jobs
<1>4. RequestInv /\ TailInv /\ LoopInv /\ IntentBeforeOutcome
  BY <1>1 DEF Init, RequestInv, TailInv, LoopInv, IntentBeforeOutcome, Working
<1>5. QED
  BY <1>3, <1>4 DEF IInv


-----------------------------------------------------------------------------
(* The invariant is inductive *)

\* What an append of a legitimate record preserves: an INTENT of an operation
\* that was posted, or an outcome of an INTENT that is or was in the log.
LEMMA AppendKeeps ==
  ASSUME IInv, NEW t \in Tx, NEW s \in Nat, NEW ty \in Types,
         log' = Appended(t, s, ty), req' = req,
         ty = "INTENT" => s \in DOMAIN req[t],
         ty # "INTENT" => s \in KnownOf(log, t),
         ty = "APPLIED" => s \in IntentsOf(log, t)
  PROVE  /\ \A i \in DOMAIN log' : log'[i].type \in IntentTypes
                                     => log'[i].seq \in DOMAIN req'[log'[i].tx]
         /\ IntentBeforeOutcome'
         /\ \A u \in Tx : KnownOf(log, u) \subseteq KnownOf(log', u)
         /\ tail = "whole" => \A u \in Tx : IntentsOf(log, u) \subseteq IntentsOf(log', u)
         /\ tail = "whole" => Len(log') > 0 /\ log'[Len(log')].type = ty
<1> DEFINE rec == [tx |-> t, seq |-> s, type |-> ty]
<1>0. log \in Seq(Record) /\ tail \in {"whole", "open", "torn"}
  BY DEF IInv, TypeOK
<1>1. /\ log' \in Seq(Record)
      /\ Len(log) <= Len(log')
      /\ \A i \in DOMAIN log :
           /\ i \in DOMAIN log' /\ log'[i].tx = log[i].tx /\ log'[i].seq = log[i].seq
           /\ \/ log'[i] = log[i]
              \/ /\ tail = "open" /\ i = Len(log) /\ i = Len(log')
                 /\ log'[i].type = IF log[i].type = "INTENT" THEN "LOST_INTENT" ELSE "LOST_OUTCOME"
      /\ \A i \in DOMAIN log' \ DOMAIN log : i = Len(log) + 1 /\ tail = "whole" /\ log'[i] = rec
  BY <1>0, AppendedExtends
<1>2. /\ Len(log) \in Nat /\ DOMAIN log = 1..Len(log)
      /\ Len(log') \in Nat /\ DOMAIN log' = 1..Len(log')
  BY <1>0, <1>1
<1>o. tail = "open" => log[Len(log)].type \in Types
  BY DEF IInv, TailInv
<1>r. rec.type = ty /\ rec.seq = s /\ rec.tx = t
  OBVIOUS
<1> HIDE DEF rec
<1>n. \A i \in DOMAIN log : log'[i].type \in IntentTypes <=> log[i].type \in IntentTypes
  BY <1>1, <1>o DEF IntentTypes, Types, Outcomes
<1>3. \A i \in DOMAIN log' : log'[i].type \in IntentTypes
                              => log'[i].seq \in DOMAIN req'[log'[i].tx]
  <2>1. \A i \in DOMAIN log : log[i].type \in IntentTypes => log[i].seq \in DOMAIN req[log[i].tx]
    BY DEF IInv, RequestInv
  <2>2. rec.type \in IntentTypes => rec.seq \in DOMAIN req[rec.tx]
    BY <1>r DEF IntentTypes, Types, Outcomes
  <2>3. QED
    BY <1>1, <1>n, <2>1, <2>2
<1>4. IntentBeforeOutcome'
  <2> SUFFICES ASSUME NEW i \in DOMAIN log', log'[i].type \in Outcomes
               PROVE  \E j \in 1..(i - 1) :
                        /\ log'[j].tx = log'[i].tx /\ log'[j].seq = log'[i].seq
                        /\ \/ log'[j].type = "INTENT"
                           \/ log'[j].type = "LOST_INTENT" /\ log'[i].type # "APPLIED"
    BY DEF IntentBeforeOutcome
  <2>1. CASE i \in DOMAIN log
    <3>1. log'[i] = log[i]
      BY <1>1, <2>1 DEF Outcomes
    <3>2. PICK j \in 1..(i - 1) :
                 /\ log[j].tx = log[i].tx /\ log[j].seq = log[i].seq
                 /\ \/ log[j].type = "INTENT"
                    \/ log[j].type = "LOST_INTENT" /\ log[i].type # "APPLIED"
      BY <2>1, <3>1 DEF IInv, IntentBeforeOutcome
    <3>3. j \in DOMAIN log /\ j # Len(log)
      BY <1>2, <2>1
    <3>4. log'[j] = log[j]
      BY <1>1, <3>3
    <3>5. QED
      BY <3>1, <3>2, <3>4
  <2>2. CASE i \notin DOMAIN log
    <3>1. i = Len(log) + 1 /\ log'[i] = rec /\ tail = "whole"
      BY <1>1, <2>2
    <3>2. PICK j \in DOMAIN log : /\ log[j].tx = t /\ log[j].seq = s
                                  /\ log[j].type \in IntentTypes
                                  /\ ty = "APPLIED" => log[j].type = "INTENT"
      <4>1. ty \in Outcomes
        BY <1>r, <3>1
      <4>2. CASE ty = "APPLIED"
        BY <4>2 DEF IntentsOf, IntentTypes
      <4>3. CASE ty # "APPLIED"
        BY <4>1, <4>3 DEF KnownOf, Outcomes
      <4>4. QED
        BY <4>2, <4>3
    <3>3. j \in 1..(i - 1) /\ log'[j] = log[j]
      BY <1>1, <1>2, <3>1
    <3>4. QED
      BY <1>r, <3>1, <3>2, <3>3 DEF IntentTypes
  <2>3. QED
    BY <2>1, <2>2
<1>5. ASSUME NEW u \in Tx PROVE KnownOf(log, u) \subseteq KnownOf(log', u)
  BY <1>1, <1>n DEF KnownOf
<1>6. ASSUME NEW u \in Tx, tail = "whole" PROVE IntentsOf(log, u) \subseteq IntentsOf(log', u)
  BY <1>1, <1>6 DEF IntentsOf
<1>7. ASSUME tail = "whole" PROVE Len(log') > 0 /\ log'[Len(log')].type = ty
  <2>1. log' = Append(log, [tx |-> t, seq |-> s, type |-> ty])
    BY <1>7 DEF Appended
  <2>2. QED
    BY <1>0, <2>1
<1>8. QED
  BY <1>3, <1>4, <1>5, <1>6, <1>7

\* The steps that leave the log and the requests alone keep what is said of them.
LEMMA LogFrame ==
  ASSUME IInv, log' = log, req' = req
  PROVE  /\ \A i \in DOMAIN log' : log'[i].type \in IntentTypes
                                     => log'[i].seq \in DOMAIN req'[log'[i].tx]
         /\ IntentBeforeOutcome'
         /\ \A u \in Tx : /\ IntentsOf(log', u) = IntentsOf(log, u)
                          /\ KnownOf(log', u) = KnownOf(log, u)
BY DEF IInv, RequestInv, IntentBeforeOutcome

\* A thread changes its own loop only, to INTENTs of its transaction.
LEMMA LoopKeeps ==
  ASSUME IInv, NEW th \in Threads, req' = req,
         todo' \in [Threads -> SUBSET Nat],
         \A u \in Tx : KnownOf(log, u) \subseteq KnownOf(log', u),
         tail = "whole" => \A u \in Tx : IntentsOf(log, u) \subseteq IntentsOf(log', u),
         \A u \in Threads \ {th} : /\ pc'[u] = pc[u] /\ todo'[u] = todo[u]
                                   /\ cur'[u] = cur[u] /\ job'[u] = job[u],
         todo'[th] \subseteq DOMAIN req[cur'[th]],
         pc'[th] \in Working =>
           /\ todo'[th] \subseteq KnownOf(log', cur'[th])
           /\ job'[th] = "create" => todo'[th] \subseteq IntentsOf(log', cur'[th])
  PROVE  /\ \A u \in Threads : todo'[u] \subseteq DOMAIN req'[cur'[u]]
         /\ LoopInv'
<1>1. \A u \in Threads : todo'[u] \subseteq DOMAIN req'[cur'[u]]
  BY DEF IInv, RequestInv
<1>2. ASSUME NEW u \in Threads, pc'[u] \in Working
      PROVE  /\ todo'[u] \subseteq KnownOf(log', cur'[u])
             /\ job'[u] = "create" => todo'[u] \subseteq IntentsOf(log', cur'[u])
  <2>1. CASE u = th
    BY <1>2, <2>1
  <2>2. CASE u # th
    <3>1. cur[u] \in Tx /\ pc[u] \in Working /\ job'[u] = job[u]
      BY <1>2, <2>2 DEF IInv, TypeOK
    <3>2. /\ todo[u] \subseteq KnownOf(log, cur[u])
          /\ job[u] = "create" => todo[u] \subseteq IntentsOf(log, cur[u]) /\ tail = "whole"
      BY <3>1 DEF IInv, LoopInv, TailInv, Intents, IntentsOf
    <3>3. QED
      BY <2>2, <3>1, <3>2
  <2>3. QED
    BY <2>1, <2>2
<1>3. LoopInv'
  BY <1>2 DEF LoopInv, Intents, IntentsOf
<1>4. QED
  BY <1>1, <1>3


\* One step of any thread, or a crash, keeps every variable in its type.
LEMMA NextTypeOK == TypeOK /\ RequestInv /\ [Next]_vars => TypeOK'
<1> SUFFICES ASSUME TypeOK, RequestInv, [Next]_vars PROVE TypeOK'
  OBVIOUS
<1> USE DEF TypeOK, PCs, Jobs, sys, thr, cnt, hist
<1>a. ASSUME NEW th \in Threads, NEW s \in Nat
      PROVE  Appended(cur[th], s, RecordType(th)) \in Seq(Record)
  <2>1. RecordType(th) \in Types
    BY DEF RecordType, Types, Outcomes
  <2>2. QED
    BY <2>1, AppendedExtends
<1>b. \A t \in Tx : Intents(t) \in SUBSET Nat
  BY IntentsType
<1>c. \A th \in Threads : todo[th] \subseteq Nat
  OBVIOUS
<1>d. ASSUME NEW th \in Threads, NEW r \in {"ok", "error"}, Finish(th, r)
      PROVE  /\ pc' \in [Threads -> PCs]
             /\ todo' \in [Threads -> SUBSET Nat]
             /\ reply' \in [Tx -> {"none", "ok", "error"}]
  BY <1>d DEF Finish, Goto
<1>1. ASSUME NEW th \in Threads, NEW t \in Tx, Begin(th, t) PROVE TypeOK'
  <2>1. PICK ops \in Requests : req' = [req EXCEPT ![t] = ops]
                                /\ todo' = [todo EXCEPT ![th] = DOMAIN ops]
    BY <1>1 DEF Begin
  <2>2. ops \in Seq(Op) /\ DOMAIN ops \in SUBSET Nat
    BY OpsAssumption
  <2>3. req' \in [Tx -> Seq(Op)] /\ todo' \in [Threads -> SUBSET Nat]
    BY <2>1, <2>2
  <2>4. base' \in [Tx -> [Path -> Content \cup {None, Blank}]]
    BY <1>1 DEF Begin
  <2>5. QED
    BY <1>1, <2>3, <2>4 DEF Begin, Goto
<1>2. ASSUME NEW th \in Threads, NEW s \in todo[th], AppendIntent(th, s) PROVE TypeOK'
  <2>1. log' \in Seq(Record)
    BY <1>2, <1>a, <1>c DEF AppendIntent
  <2>2. QED
    BY <1>2, <2>1 DEF AppendIntent, Goto
<1>3. ASSUME NEW th \in Threads, ReadIntents(th) PROVE TypeOK'
  <2>1. CASE Intents(cur[th]) = {}
    BY <1>3, <1>d, <2>1 DEF ReadIntents
  <2>2. CASE Intents(cur[th]) # {}
    <3>1. Intents(cur[th]) \in SUBSET Nat
      BY <1>b
    <3>2. QED
      BY <1>3, <2>2, <3>1 DEF ReadIntents, Goto
  <2>3. QED
    BY <2>1, <2>2
<1>4. ASSUME NEW th \in Threads, NEW s \in todo[th], Check(th, s) PROVE TypeOK'
  <2>1. Decide(OpOf(th, s)) \in {"noop", "fail", "move", "touch"}
    BY OpOfType DEF Decide, Op, Kinds
  <2>2. QED
    BY <1>4, <2>1 DEF Check, Goto
<1>e. ASSUME NEW th \in Threads, NEW s \in todo[th], NEW b \in BOOLEAN, Recorded(th, s, b)
      PROVE  moved' \in [Tx -> SUBSET Nat] /\ impure' \subseteq Tx
  BY <1>e DEF Recorded
<1>5. ASSUME NEW th \in Threads, NEW s \in todo[th], Move(th, s) PROVE TypeOK'
  <2>1. OpOf(th, s).src \in Path /\ OpOf(th, s).dst \in Path
    BY OpOfType DEF Op
  <2>2. fs' \in [Path -> Content \cup {None, Blank}]
    BY <1>5, <2>1 DEF Move
  <2>3. moved' \in [Tx -> SUBSET Nat] /\ impure' \subseteq Tx
    BY <1>5, <1>e DEF Move
  <2>4. QED
    BY <1>5, <2>2, <2>3 DEF Move, Goto
<1>6. ASSUME NEW th \in Threads, NEW s \in todo[th], MoveMissing(th, s) PROVE TypeOK'
  BY <1>6 DEF MoveMissing, Goto
<1>7. ASSUME NEW th \in Threads, NEW s \in todo[th], Touch(th, s) PROVE TypeOK'
  <2>1. OpOf(th, s).dst \in Path
    BY OpOfType DEF Op
  <2>2. fs' \in [Path -> Content \cup {None, Blank}]
    BY <1>7, <2>1 DEF Touch
  <2>3. moved' \in [Tx -> SUBSET Nat] /\ impure' \subseteq Tx
    BY <1>7, <1>e DEF Touch
  <2>4. QED
    BY <1>7, <2>2, <2>3 DEF Touch, Goto
<1>8. ASSUME NEW th \in Threads, NEW s \in todo[th], LogOutcome(th, s) PROVE TypeOK'
  <2>1. log' \in Seq(Record)
    BY <1>8, <1>a, <1>c DEF LogOutcome
  <2>2. CASE todo[th] = {s}
    BY <1>8, <1>d, <2>1, <2>2 DEF LogOutcome
  <2>3. CASE todo[th] # {s}
    BY <1>8, <2>1, <2>3 DEF LogOutcome, Goto
  <2>4. QED
    BY <2>2, <2>3
<1>9. ASSUME NEW th \in Threads, NEW s \in todo[th], LogFailure(th, s) PROVE TypeOK'
  <2>1. log' \in Seq(Record)
    BY <1>9, <1>a, <1>c DEF LogFailure
  <2>2. QED
    BY <1>9, <1>d, <2>1 DEF LogFailure
<1>10. ASSUME NEW th \in Threads, NEW s \in todo[th], AppendError(th, s) PROVE TypeOK'
  <2>1. log' \in Seq(Record) /\ tail' \in {"whole", "open", "torn"}
    BY <1>10, <1>a, <1>c DEF AppendError
  <2>2. /\ pc' \in [Threads -> PCs]
        /\ todo' \in [Threads -> SUBSET Nat]
        /\ reply' \in [Tx -> {"none", "ok", "error"}]
    BY <1>10, <1>d DEF AppendError, Goto
  <2>3. QED
    BY <1>10, <2>1, <2>2 DEF AppendError
<1>11. ASSUME NEW th \in Threads, NEW t \in Tx, StartRollback(th, t) PROVE TypeOK'
  BY <1>11, <1>b DEF StartRollback, Goto
<1>12. ASSUME NEW th \in Threads, StartRecover(th) PROVE TypeOK'
  BY <1>12 DEF StartRecover, Goto, InFlight
<1>13. ASSUME NEW th \in Threads, RecoverNext(th) PROVE TypeOK'
  <2>1. CASE pending[th] = {} /\ Goto(th, "idle") /\ UNCHANGED <<cur, todo, pending>>
    BY <1>13, <2>1 DEF RecoverNext, Goto
  <2>2. ASSUME NEW t \in pending[th],
               pending' = [pending EXCEPT ![th] = @ \ {t}],
               cur' = [cur EXCEPT ![th] = t],
               todo' = [todo EXCEPT ![th] = Intents(t)],
               Goto(th, "check")
        PROVE  TypeOK'
    BY <1>13, <1>b, <2>2 DEF RecoverNext, Goto
  <2>3. QED
    BY <1>13, <2>1, <2>2 DEF RecoverNext
<1>14. ASSUME Crash PROVE TypeOK'
  <2>1. log' \in Seq(Record) /\ tail' \in {"whole", "open", "torn"}
    <3>1. CASE UNCHANGED <<log, tail>>
      BY <3>1
    <3>2. ASSUME NEW th \in Threads, NEW s \in todo[th], Cut(th, s)
          PROVE  log' \in Seq(Record) /\ tail' \in {"whole", "open", "torn"}
      BY <1>a, <1>c, <3>2 DEF Cut
    <3>3. QED
      BY <1>14, <3>1, <3>2 DEF Crash
  <2>2. /\ pc' \in [Threads -> PCs]
        /\ todo' \in [Threads -> SUBSET Nat]
        /\ pending' \in [Threads -> SUBSET Tx]
        /\ crashes' \in Nat
    BY <1>14 DEF Crash
  <2>3. UNCHANGED <<fs, req, job, cur, reply, ioErrors, calls, moved, base, impure>>
    BY <1>14 DEF Crash
  <2>4. QED
    BY <2>1, <2>2, <2>3
<1>17. ASSUME NEW th \in Threads, NEW s \in todo[th], MoveFails(th, s) PROVE TypeOK'
  BY <1>17 DEF MoveFails, Goto
<1>15. ASSUME UNCHANGED vars PROVE TypeOK'
  BY <1>15 DEF vars
<1>16. QED
  BY <1>1, <1>2, <1>3, <1>4, <1>5, <1>6, <1>7, <1>8, <1>9, <1>10, <1>11, <1>12, <1>13,
     <1>14, <1>15, <1>17 DEF Next, Progress, Step


\* A step that leaves the log and the requests alone, and moves one thread to
\* INTENTs of its transaction or out of the loop, keeps the invariant.
LEMMA QuietStep ==
  ASSUME IInv, TypeOK', NEW th \in Threads, log' = log, tail' = tail, req' = req,
         \A u \in Threads \ {th} : /\ pc'[u] = pc[u] /\ todo'[u] = todo[u]
                                   /\ cur'[u] = cur[u] /\ job'[u] = job[u],
         todo'[th] \subseteq DOMAIN req[cur'[th]],
         pc'[th] \in Working =>
           /\ todo'[th] \subseteq KnownOf(log, cur'[th])
           /\ job'[th] = "create" => todo'[th] \subseteq IntentsOf(log, cur'[th]),
         job'[th] = "create" =>
           pc'[th] # "next" /\ (pc'[th] \in {"read"} \cup Working => tail = "whole")
  PROVE  IInv'
<1>1. \A u \in Tx : /\ KnownOf(log, u) \subseteq KnownOf(log', u)
                    /\ IntentsOf(log, u) \subseteq IntentsOf(log', u)
  OBVIOUS
<1>2. todo' \in [Threads -> SUBSET Nat]
  BY DEF TypeOK
<1>3. (\A u \in Threads : todo'[u] \subseteq DOMAIN req'[cur'[u]]) /\ LoopInv'
  BY <1>1, <1>2, LoopKeeps
<1>4. IntentBeforeOutcome' /\ RequestInv'
  BY <1>3, LogFrame DEF RequestInv
<1>5. TailInv'
  BY DEF IInv, TailInv
<1>6. QED
  BY <1>3, <1>4, <1>5 DEF IInv

\* What an append of the record a thread is at keeps of the log.
LEMMA RecordKeeps ==
  ASSUME IInv, NEW th \in Threads, NEW s \in todo[th], req' = req,
         pc[th] \in {"intent", "log_ok", "log_err"},
         log' = Appended(cur[th], s, RecordType(th))
  PROVE  /\ \A i \in DOMAIN log' : log'[i].type \in IntentTypes
                                     => log'[i].seq \in DOMAIN req'[log'[i].tx]
         /\ IntentBeforeOutcome'
         /\ \A u \in Tx : KnownOf(log, u) \subseteq KnownOf(log', u)
         /\ tail = "whole" => \A u \in Tx : IntentsOf(log, u) \subseteq IntentsOf(log', u)
         /\ tail = "whole" => Len(log') > 0 /\ log'[Len(log')].type \in Types
<1>1. cur[th] \in Tx /\ s \in Nat /\ s \in DOMAIN req[cur[th]] /\ RecordType(th) \in Types
  BY DEF IInv, TypeOK, RequestInv, RecordType, Types, Outcomes
<1>2. RecordType(th) # "INTENT" => s \in KnownOf(log, cur[th])
  BY DEF IInv, LoopInv, RecordType, Working
<1>3. RecordType(th) = "APPLIED" => s \in IntentsOf(log, cur[th])
  BY DEF IInv, LoopInv, RecordType, Working, Intents, IntentsOf
<1>4. QED
  BY <1>1, <1>2, <1>3, AppendKeeps

\* A step that appends the record its thread is at keeps the invariant, too.
LEMMA LoggingStep ==
  ASSUME IInv, TypeOK', NEW th \in Threads, NEW s \in todo[th], req' = req, cur' = cur,
         job' = job,
         pc[th] \in {"intent", "log_ok", "log_err"},
         log' = Appended(cur[th], s, RecordType(th)), tail' = "whole",
         \A u \in Threads \ {th} : pc'[u] = pc[u] /\ todo'[u] = todo[u],
         todo'[th] \subseteq todo[th],
         pc'[th] \in Working => todo'[th] = {} \/ pc[th] \in Working,
         job[th] = "create" => pc'[th] # "next"
  PROVE  IInv'
<1>3. /\ \A i \in DOMAIN log' : log'[i].type \in IntentTypes
                                  => log'[i].seq \in DOMAIN req'[log'[i].tx]
      /\ IntentBeforeOutcome'
      /\ \A u \in Tx : KnownOf(log, u) \subseteq KnownOf(log', u)
      /\ tail = "whole" => \A u \in Tx : IntentsOf(log, u) \subseteq IntentsOf(log', u)
  BY RecordKeeps
<1>4. todo' \in [Threads -> SUBSET Nat] /\ cur[th] \in Tx
  BY DEF TypeOK, IInv
<1>5. todo'[th] \subseteq DOMAIN req[cur'[th]]
  BY DEF IInv, RequestInv
<1>6. pc'[th] \in Working =>
        /\ todo'[th] \subseteq KnownOf(log', cur'[th])
        /\ job'[th] = "create" => todo'[th] \subseteq IntentsOf(log', cur'[th])
  <2>1. pc[th] \in Working =>
          /\ todo[th] \subseteq KnownOf(log, cur[th])
          /\ job[th] = "create" => todo[th] \subseteq IntentsOf(log, cur[th]) /\ tail = "whole"
    BY DEF IInv, LoopInv, TailInv, Intents, IntentsOf
  <2>2. QED
    BY <1>3, <1>4, <2>1
<1>7. (\A u \in Threads : todo'[u] \subseteq DOMAIN req'[cur'[u]]) /\ LoopInv'
  BY <1>3, <1>4, <1>5, <1>6, LoopKeeps
<1>8. TailInv'
  <2>1. \A u \in Threads : job[u] = "create" => pc'[u] # "next"
    BY DEF IInv, TailInv
  <2>2. QED
    BY <2>1 DEF TailInv
<1>9. QED
  BY <1>3, <1>7, <1>8 DEF IInv, RequestInv

\* Every step of a thread, and a crash, preserves it.
LEMMA NextIInv == IInv /\ [Next]_vars => IInv'
<1> SUFFICES ASSUME IInv, [Next]_vars PROVE IInv'
  OBVIOUS
<1>t. TypeOK /\ RequestInv /\ TypeOK'
  BY NextTypeOK DEF IInv
<1>f. /\ pc \in [Threads -> PCs] /\ todo \in [Threads -> SUBSET Nat]
      /\ cur \in [Threads -> Tx] /\ pending \in [Threads -> SUBSET Tx]
      /\ job \in [Threads -> Jobs]
  BY <1>t DEF TypeOK
<1>i. \A t \in Tx : /\ Intents(t) \subseteq DOMAIN req[t] /\ Intents(t) = IntentsOf(log, t)
                    /\ Intents(t) \subseteq KnownOf(log, t)
  BY <1>t, IntentsType
<1>l. \A th \in Threads :
        /\ todo[th] \subseteq DOMAIN req[cur[th]]
        /\ pc[th] \in Working => /\ todo[th] \subseteq KnownOf(log, cur[th])
                                 /\ job[th] = "create" => todo[th] \subseteq IntentsOf(log, cur[th])
        /\ job[th] = "create" =>
             pc[th] # "next" /\ (pc[th] \in {"read"} \cup Working => tail = "whole")
  BY <1>i, <1>f DEF IInv, RequestInv, LoopInv, TailInv
<1> USE DEF sys, thr, cnt, hist
<1>1. ASSUME NEW th \in Threads, NEW t \in Tx, Begin(th, t) PROVE IInv'
  <2>1. /\ req[t] = <<>> /\ log' = log /\ tail' = tail
        /\ job' = [job EXCEPT ![th] = "create"]
        /\ \E ops \in Requests : /\ req' = [req EXCEPT ![t] = ops]
                                 /\ todo' = [todo EXCEPT ![th] = DOMAIN ops]
        /\ pc' = [pc EXCEPT ![th] = "intent"] /\ cur' = [cur EXCEPT ![th] = t]
    BY <1>1 DEF Begin, Goto
  <2>2. req \in [Tx -> Seq(Op)] /\ \A u \in Tx : DOMAIN req[u] \subseteq DOMAIN req'[u]
    <3>1. DOMAIN req[t] = {}
      BY <2>1
    <3>2. req \in [Tx -> Seq(Op)]
      BY <1>t DEF TypeOK
    <3>3. QED
      BY <2>1, <3>1, <3>2
  <2>3. \A u \in Threads : todo'[u] \subseteq DOMAIN req'[cur'[u]]
    BY <1>f, <1>l, <2>1, <2>2
  <2>4. \A i \in DOMAIN log : log[i].tx \in Tx
    <3>1. log \in Seq(Record)
      BY <1>t DEF TypeOK
    <3>2. \A r \in Record : r.tx \in Tx
      BY DEF Record
    <3>3. QED
      BY <3>1, <3>2
  <2>5. RequestInv'
    BY <1>t, <2>1, <2>2, <2>3, <2>4 DEF RequestInv
  <2>6. LoopInv'
    <3>1. \A u \in Threads : pc'[u] \in Working => u # th
      BY <1>f, <2>1 DEF Working
    <3>2. \A u \in Threads \ {th} : /\ pc'[u] = pc[u] /\ todo'[u] = todo[u]
                                      /\ cur'[u] = cur[u] /\ job'[u] = job[u]
      BY <1>f, <2>1
    <3>3. QED
      BY <1>l, <2>1, <3>1, <3>2 DEF LoopInv, Intents, IntentsOf
  <2>7. IntentBeforeOutcome'
    BY <2>1 DEF IInv, IntentBeforeOutcome
  <2>8. TailInv'
    <3>1. pc'[th] \notin {"read"} \cup Working
      BY <1>f, <2>1 DEF Working
    <3>2. QED
      BY <1>f, <2>1, <3>1 DEF IInv, TailInv
  <2>9. QED
    BY <1>t, <2>5, <2>6, <2>7, <2>8 DEF IInv
<1>2. ASSUME NEW th \in Threads, NEW s \in todo[th], AppendIntent(th, s) PROVE IInv'
  <2>1. pc'[th] \notin Working /\ pc'[th] # "next"
    BY <1>2, <1>f DEF AppendIntent, Goto, Working
  <2>2. /\ req' = req /\ cur' = cur /\ job' = job /\ pc[th] = "intent"
        /\ log' = Appended(cur[th], s, RecordType(th)) /\ tail' = "whole"
        /\ \A u \in Threads \ {th} : pc'[u] = pc[u] /\ todo'[u] = todo[u]
        /\ todo'[th] \subseteq todo[th]
    BY <1>2, <1>f DEF AppendIntent, Goto
  <2>3. QED
    BY <1>t, <2>1, <2>2, LoggingStep
<1>3. ASSUME NEW th \in Threads, ReadIntents(th) PROVE IInv'
  <2>1. /\ log' = log /\ tail' = tail /\ req' = req /\ cur' = cur /\ job' = job
        /\ cur[th] \in Tx /\ pc[th] = "read"
        /\ \A u \in Threads \ {th} : pc'[u] = pc[u] /\ todo'[u] = todo[u]
        /\ todo'[th] \subseteq Intents(cur[th])
    BY <1>3, <1>f DEF ReadIntents, Finish, Goto
  <2>2. /\ todo'[th] \subseteq DOMAIN req[cur'[th]] /\ todo'[th] \subseteq IntentsOf(log, cur'[th])
        /\ todo'[th] \subseteq KnownOf(log, cur'[th])
        /\ job[th] = "create" => tail = "whole" /\ pc'[th] # "next"
    BY <1>3, <1>f, <1>i, <1>l, <2>1 DEF ReadIntents, Finish, Goto
  <2>3. QED
    BY <1>t, <2>1, <2>2, QuietStep
<1>5. ASSUME NEW th \in Threads, NEW s \in todo[th],
             Check(th, s) \/ Move(th, s) \/ MoveMissing(th, s) \/ Touch(th, s) \/ MoveFails(th, s)
      PROVE  IInv'
  <2>1. /\ pc[th] \in Working /\ log' = log /\ tail' = tail /\ req' = req /\ cur' = cur
        /\ todo' = todo /\ job' = job
    BY <1>5 DEF Check, Move, MoveMissing, Touch, MoveFails, Working
  <2>a. Decide(OpOf(th, s)) \in {"noop", "fail", "move", "touch"}
    BY <1>t, OpOfType DEF Decide, Op, Kinds
  <2>2. pc'[th] # "next" /\ \A u \in Threads \ {th} : pc'[u] = pc[u]
    BY <1>5, <1>f, <2>a DEF Check, Move, MoveMissing, Touch, MoveFails, Goto
  <2>3. QED
    BY <1>t, <1>l, <2>1, <2>2, QuietStep
<1>6. ASSUME NEW th \in Threads, NEW s \in todo[th], LogOutcome(th, s) \/ LogFailure(th, s)
      PROVE  IInv'
  <2>1. /\ req' = req /\ cur' = cur /\ job' = job /\ pc[th] \in {"log_ok", "log_err"}
        /\ log' = Appended(cur[th], s, RecordType(th)) /\ tail' = "whole"
        /\ \A u \in Threads \ {th} : pc'[u] = pc[u] /\ todo'[u] = todo[u]
        /\ todo'[th] \subseteq todo[th]
        /\ job[th] = "create" => pc'[th] # "next"
    BY <1>6, <1>f DEF LogOutcome, LogFailure, Finish, Goto
  <2>2. pc[th] \in Working
    BY <2>1 DEF Working
  <2>3. QED
    BY <1>t, <2>1, <2>2, LoggingStep
<1>7. ASSUME NEW th \in Threads, NEW s \in todo[th], AppendError(th, s) PROVE IInv'
  <2>1. /\ req' = req /\ cur' = cur /\ job' = job /\ pc[th] \in {"intent", "log_ok", "log_err"}
        /\ \A u \in Threads \ {th} : pc'[u] = pc[u] /\ todo'[u] = todo[u]
        /\ todo'[th] \subseteq todo[th]
    BY <1>7, <1>f DEF AppendError, Finish, Goto
  <2>b. \/ pc[th] = "log_ok" /\ pc'[th] = "log_err"
        \/ pc'[th] \in {"idle", "next"} /\ todo'[th] = {}
    BY <1>7, <1>f DEF AppendError, Finish, Goto
  <2>a. job[th] = "create" => pc'[th] # "next"
    BY <1>7, <1>f DEF AppendError, Finish, Goto
  <2>2. pc'[th] \in Working => todo'[th] = {} \/ pc[th] \in Working
    BY <2>b DEF Working
  <2>3. CASE log' = log /\ tail' = tail
    <3>1. todo'[th] \subseteq DOMAIN req[cur'[th]]
      BY <1>l, <2>1
    <3>2. /\ pc'[th] \in Working =>
               /\ todo'[th] \subseteq KnownOf(log, cur'[th])
               /\ job'[th] = "create" => todo'[th] \subseteq IntentsOf(log, cur'[th])
          /\ job'[th] = "create" /\ pc'[th] \in {"read"} \cup Working => tail = "whole"
      BY <1>l, <2>1, <2>b DEF Working
    <3>3. QED
      BY <1>t, <2>1, <2>3, <3>1, <3>2, <2>a, QuietStep
  <2>4. CASE log' = Appended(cur[th], s, RecordType(th)) /\ tail' = "whole"
    BY <1>t, <2>1, <2>2, <2>4, <2>a, LoggingStep
  <2>5. QED
    BY <1>7, <2>3, <2>4 DEF AppendError
<1>8. ASSUME NEW th \in Threads, NEW t \in Tx, StartRollback(th, t) PROVE IInv'
  <2>1. /\ log' = log /\ tail' = tail /\ req' = req /\ cur'[th] = t /\ todo'[th] = Intents(t)
        /\ job'[th] = "rollback"
        /\ \A u \in Threads \ {th} : /\ pc'[u] = pc[u] /\ todo'[u] = todo[u]
                                     /\ cur'[u] = cur[u] /\ job'[u] = job[u]
    BY <1>8, <1>f DEF StartRollback, Goto
  <2>2. QED
    BY <1>t, <1>i, <2>1, QuietStep
<1>9. ASSUME NEW th \in Threads, StartRecover(th) PROVE IInv'
  <2>1. /\ log' = log /\ tail' = tail /\ req' = req /\ cur' = cur /\ todo' = todo
        /\ pc'[th] = "next" /\ job'[th] = "recover"
        /\ \A u \in Threads \ {th} : pc'[u] = pc[u] /\ job'[u] = job[u]
    BY <1>9, <1>f DEF StartRecover, Goto
  <2>2. pc'[th] \notin Working
    BY <2>1 DEF Working
  <2>3. QED
    BY <1>t, <1>l, <2>1, <2>2, QuietStep
<1>10. ASSUME NEW th \in Threads, RecoverNext(th) PROVE IInv'
  <2>1. log' = log /\ tail' = tail /\ req' = req /\ job' = job
    BY <1>10 DEF RecoverNext
  <2>a. job[th] # "create"
    BY <1>10, <1>l DEF RecoverNext
  <2>2. CASE pc' = [pc EXCEPT ![th] = "idle"] /\ UNCHANGED <<cur, todo, pending>>
    <3>1. pc'[th] \notin {"read"} \cup Working /\ \A u \in Threads \ {th} : pc'[u] = pc[u]
      BY <1>f, <2>2 DEF Working
    <3>2. QED
      BY <1>t, <1>l, <2>1, <2>a, <2>2, <3>1, QuietStep
  <2>3. ASSUME NEW t \in pending[th],
               cur' = [cur EXCEPT ![th] = t],
               todo' = [todo EXCEPT ![th] = Intents(t)],
               pc' = [pc EXCEPT ![th] = "check"]
        PROVE  IInv'
    <3>1. t \in Tx /\ cur'[th] = t /\ todo'[th] = Intents(t)
      BY <1>f, <2>3
    <3>2. \A u \in Threads \ {th} : pc'[u] = pc[u] /\ todo'[u] = todo[u] /\ cur'[u] = cur[u]
      BY <1>f, <2>3
    <3>3. QED
      BY <1>t, <1>i, <2>1, <2>a, <3>1, <3>2, QuietStep
  <2>4. QED
    BY <1>10, <2>2, <2>3 DEF RecoverNext, Goto
<1>11. ASSUME Crash PROVE IInv'
  <2>1. /\ req' = req /\ cur' = cur
        /\ pc' = [u \in Threads |-> "idle"] /\ todo' = [u \in Threads |-> {}]
    BY <1>11 DEF Crash
  <2>2. LoopInv' /\ \A u \in Threads : todo'[u] \subseteq DOMAIN req'[cur'[u]]
    BY <2>1 DEF LoopInv, Working
  <2>3. \A u \in Threads : pc'[u] \notin {"read"} \cup Working /\ pc'[u] # "next"
    BY <2>1 DEF Working
  <2>4. CASE log' = log /\ (tail' = tail \/ tail' = "torn")
    <3>1. RequestInv' /\ IntentBeforeOutcome'
      BY <2>1, <2>2, <2>4, LogFrame DEF RequestInv
    <3>2. TailInv'
      BY <2>3, <2>4 DEF IInv, TailInv
    <3>3. QED
      BY <1>t, <2>2, <3>1, <3>2 DEF IInv
  <2>5. ASSUME NEW th \in Threads, NEW s \in todo[th], Cut(th, s),
               log' = Appended(cur[th], s, RecordType(th)),
               tail' = IF tail = "whole" THEN "open" ELSE "torn"
        PROVE  IInv'
    <3>1. /\ \A i \in DOMAIN log' : log'[i].type \in IntentTypes
                                      => log'[i].seq \in DOMAIN req'[log'[i].tx]
          /\ IntentBeforeOutcome'
          /\ tail = "whole" => Len(log') > 0 /\ log'[Len(log')].type \in Types
      BY <2>1, <2>5, RecordKeeps DEF Cut
    <3>2. TailInv'
      BY <2>3, <2>5, <3>1 DEF TailInv
    <3>3. QED
      BY <1>t, <2>2, <3>1, <3>2 DEF IInv, RequestInv
  <2>6. QED
    BY <1>11, <2>4, <2>5 DEF Crash, Cut
<1>12. ASSUME UNCHANGED vars PROVE IInv'
  <2>1. /\ log' = log /\ tail' = tail /\ req' = req /\ cur' = cur /\ pc' = pc
        /\ todo' = todo /\ job' = job
    BY <1>12 DEF vars
  <2>2. RequestInv' /\ IntentBeforeOutcome'
    BY <2>1, LogFrame DEF RequestInv, IInv
  <2>3. TailInv' /\ LoopInv'
    BY <2>1 DEF IInv, TailInv, LoopInv, Intents
  <2>4. QED
    BY <1>t, <2>2, <2>3 DEF IInv
<1>13. QED
  BY <1>1, <1>2, <1>3, <1>5, <1>6, <1>7, <1>8, <1>9, <1>10, <1>11, <1>12
     DEF Next, Progress, Step

\* Every variable keeps its type.
THEOREM TypeCorrect == Spec => []TypeOK
<1>1. Spec => []IInv
  BY InitIInv, NextIInv, PTL DEF Spec
<1>2. IInv => TypeOK
  BY DEF IInv
<1>3. QED
  BY <1>1, <1>2, PTL

\* The write-ahead rule: for every number of threads, crashes, cut lines and
\* failing appends, an outcome is in the log only behind its INTENT; only one of
\* a rollback may find it on a line that the next append has spoiled.
THEOREM WriteAhead == Spec => []IntentBeforeOutcome
<1>1. Spec => []IInv
  BY InitIInv, NextIInv, PTL DEF Spec
<1>2. IInv => IntentBeforeOutcome
  BY DEF IInv
<1>3. QED
  BY <1>1, <1>2, PTL

-----------------------------------------------------------------------------
(* What the log says of apply: a prefix, and all of it after a success *)

AppliedOf(l, t) ==
  {l[i].seq : i \in {j \in DOMAIN l : l[j].tx = t /\ l[j].type = "APPLIED"}}

\* The thread that runs create_transaction or apply_tx, and for which transaction.
Creating(th) == job[th] = "create" /\ pc[th] \in {"intent", "read"} \cup Working

\* Nobody else creates the same transaction, and only a creator logs INTENTs.
CreatorInv ==
  /\ \A th \in Threads : pc[th] \in {"intent", "read"} => job[th] = "create"
  /\ \A th \in Threads : pc[th] = "next" => job[th] # "create"
  /\ \A th \in Threads : Creating(th) => req[cur[th]] # <<>> /\ reply[cur[th]] # "ok"
  /\ \A th, u \in Threads : Creating(th) /\ Creating(u) /\ cur[th] = cur[u] => th = u
  /\ \A t \in Tx : req[t] = <<>> => moved[t] = {} /\ reply[t] # "ok"

\* Before the loop nothing has been applied.
BeforeLoop(th) ==
  /\ moved[cur[th]] = {} /\ AppliedOf(log, cur[th]) = {}
  /\ pc[th] = "read" => tail = "whole"

\* In the loop everything visited is logged APPLIED and comes before the rest;
\* of the rest, only the operation at hand may have moved its file, or been
\* logged by an append that raised.
InLoop(th) ==
  /\ tail = "whole"
  /\ \A s \in IntentsOf(log, cur[th]) \ todo[th] :
       s \in AppliedOf(log, cur[th]) /\ \A u \in todo[th] : s < u
  /\ \A s \in todo[th] \cap AppliedOf(log, cur[th]) : pc[th] = "log_err" /\ IsNext(th, s)
  /\ moved[cur[th]] \subseteq IntentsOf(log, cur[th])
  /\ \A s \in todo[th] \cap moved[cur[th]] : pc[th] \in {"log_ok", "log_err"} /\ IsNext(th, s)

\* Without torn lines no INTENT is missing.
Whole(th) ==
  ~TornWrites => DOMAIN req[cur[th]] \subseteq
                   IntentsOf(log, cur[th]) \cup (IF pc[th] = "intent" THEN todo[th] ELSE {})

Local(th) ==
  Creating(th) =>
    /\ IF pc[th] \in Working THEN InLoop(th) ELSE BeforeLoop(th)
    /\ Whole(th)

HasIn(l, t, o) == \E i \in DOMAIN l : l[i].tx = t /\ l[i].type = o

PrefixIn(l, t) ==
  \A s, u \in IntentsOf(l, t) : s < u /\ u \in AppliedOf(l, t) => s \in AppliedOf(l, t)
OneOpIn(l, t) ==
  (\A o \in Outcomes : ~HasIn(l, t, o)) => \A s \in moved[t] : \A u \in IntentsOf(l, t) : s <= u

PrefixOf(t) == PrefixIn(log, t)
OneOpOf(t) == OneOpIn(log, t)

\* What an open line holds can be lost without harm.
OpenInv == tail = "open" => \A t \in Tx : PrefixIn(LastLost, t) /\ OneOpIn(LastLost, t)

OkOf(t) == ~TornWrites /\ reply[t] = "ok" => DOMAIN req[t] \subseteq AppliedOf(log, t)

ApplyInv ==
  /\ CreatorInv
  /\ ~TornWrites => tail = "whole"
  /\ OpenInv
  /\ \A th \in Threads : Local(th)
  /\ \A t \in Tx : PrefixOf(t) /\ OneOpOf(t) /\ OkOf(t)

\* What a step leaves alone of a transaction: all but further outcomes.
Same(t) ==
  /\ req'[t] = req[t] /\ moved'[t] = moved[t] /\ reply'[t] = reply[t]
  /\ IntentsOf(log', t) = IntentsOf(log, t)
  /\ AppliedOf(log', t) = AppliedOf(log, t)
  /\ \A o \in Outcomes : HasIn(log, t, o) => HasIn(log', t, o)

\* What an append adds to what the log says, but behind an open line.
LEMMA AppendSets ==
  ASSUME log \in Seq(Record), tail \in {"whole", "torn"}, NEW t \in Tx, NEW s \in Nat, NEW ty \in Types,
         log' = Appended(t, s, ty)
  PROVE  /\ \A u \in Tx : u # t => /\ IntentsOf(log', u) = IntentsOf(log, u)
                                   /\ AppliedOf(log', u) = AppliedOf(log, u)
         /\ ty # "INTENT" => IntentsOf(log', t) = IntentsOf(log, t)
         /\ ty # "APPLIED" => AppliedOf(log', t) = AppliedOf(log, t)
         /\ ty = "INTENT" /\ tail = "whole" => IntentsOf(log', t) = IntentsOf(log, t) \cup {s}
         /\ ty = "APPLIED" /\ tail = "whole" => AppliedOf(log', t) = AppliedOf(log, t) \cup {s}
         /\ \A u \in Tx : \A o \in Outcomes : HasIn(log, u, o) => HasIn(log', u, o)
<1> DEFINE rec == [tx |-> t, seq |-> s, type |-> ty]
<1>1. rec \in Record
  BY DEF Record, Types
<1>2. CASE tail = "torn"
  <2>1. log' = log
    BY <1>2 DEF Appended
  <2>2. QED
    BY <1>2, <2>1 DEF IntentsOf, AppliedOf, HasIn
<1>3. CASE tail = "whole"
  <2>1. log' = Append(log, rec)
    BY <1>3 DEF Appended
  <2>2. /\ DOMAIN log' = DOMAIN log \cup {Len(log) + 1}
        /\ log'[Len(log) + 1] = rec
        /\ \A i \in DOMAIN log : log'[i] = log[i]
    BY <1>1, <2>1
  <2>3. rec.tx = t /\ rec.seq = s /\ rec.type = ty
    OBVIOUS
  <2> HIDE DEF rec
  <2>4. \A u \in Tx : u # t => IntentsOf(log', u) = IntentsOf(log, u)
    BY <2>2, <2>3 DEF IntentsOf
  <2>5. \A u \in Tx : u # t => AppliedOf(log', u) = AppliedOf(log, u)
    BY <2>2, <2>3 DEF AppliedOf
  <2>6. IntentsOf(log', t) = IntentsOf(log, t) \cup (IF ty = "INTENT" THEN {s} ELSE {})
    BY <2>2, <2>3 DEF IntentsOf
  <2>7. AppliedOf(log', t) = AppliedOf(log, t) \cup (IF ty = "APPLIED" THEN {s} ELSE {})
    BY <2>2, <2>3 DEF AppliedOf
  <2>8. \A u \in Tx : \A o \in Outcomes : HasIn(log, u, o) => HasIn(log', u, o)
    BY <2>2 DEF HasIn
  <2>9. QED
    BY <1>3, <2>4, <2>5, <2>6, <2>7, <2>8
<1>4. QED
  BY <1>2, <1>3

\* A log with its last record marked as lost.
LostOf(l) ==
  [l EXCEPT ![Len(l)].type = IF @ = "INTENT" THEN "LOST_INTENT" ELSE "LOST_OUTCOME"]

LEMMA LostLast ==
  ASSUME NEW l \in Seq(Record), Len(l) > 0
  PROVE  /\ DOMAIN LostOf(l) = DOMAIN l
         /\ \A i \in DOMAIN l : i # Len(l) => LostOf(l)[i] = l[i]
         /\ LostOf(l)[Len(l)].type \in Lost
  BY DEF LostOf, Lost

\* What the loss of the last record takes from it.
LEMMA LostSets ==
  ASSUME log \in Seq(Record), Len(log) > 0
  PROVE  \A t \in Tx : /\ IntentsOf(LastLost, t) \subseteq IntentsOf(log, t)
                        /\ AppliedOf(LastLost, t) \subseteq AppliedOf(log, t)
<1>1. /\ DOMAIN LastLost = DOMAIN log
      /\ \A i \in DOMAIN log : i # Len(log) => LastLost[i] = log[i]
      /\ LastLost[Len(log)].type \in Lost
  BY LostLast DEF LastLost, LostOf
<1>2. \A i \in DOMAIN log : LastLost[i].type \in {"INTENT", "APPLIED"} => LastLost[i] = log[i]
  BY <1>1 DEF Lost
<1>3. QED
  BY <1>1, <1>2 DEF IntentsOf, AppliedOf

\* A record that is appended and then lost leaves the log as it was.
LEMMA AppendLost ==
  ASSUME log \in Seq(Record), NEW r \in Record, log' = Append(log, r)
  PROVE  \A t \in Tx : /\ IntentsOf(LastLost', t) = IntentsOf(log, t)
                        /\ AppliedOf(LastLost', t) = AppliedOf(log, t)
                        /\ \A o \in Outcomes : HasIn(LastLost', t, o) <=> HasIn(log, t, o)
<1>1. /\ Len(log') = Len(log) + 1 /\ DOMAIN log' = DOMAIN log \cup {Len(log) + 1}
      /\ \A i \in DOMAIN log : log'[i] = log[i] /\ i # Len(log')
      /\ log' \in Seq(Record) /\ Len(log') > 0
  OBVIOUS
<1>l. LastLost' = LostOf(log')
  BY DEF LastLost, LostOf
<1>2. /\ DOMAIN LostOf(log') = DOMAIN log \cup {Len(log')}
      /\ \A i \in DOMAIN log : LostOf(log')[i] = log[i]
      /\ LostOf(log')[Len(log')].type \in Lost
  <2>1. /\ DOMAIN LostOf(log') = DOMAIN log'
        /\ \A i \in DOMAIN log' : i # Len(log') => LostOf(log')[i] = log'[i]
        /\ LostOf(log')[Len(log')].type \in Lost
    BY <1>1, LostLast
  <2>2. QED
    BY <1>1, <2>1
<1>3. \A i \in DOMAIN LostOf(log') :
        LostOf(log')[i].type \in Outcomes \cup {"INTENT"} => i \in DOMAIN log
  BY <1>2 DEF Lost, Outcomes
<1>4. ASSUME NEW t \in Tx PROVE IntentsOf(LostOf(log'), t) = IntentsOf(log, t)
  BY <1>2, <1>3 DEF IntentsOf
<1>5. ASSUME NEW t \in Tx PROVE AppliedOf(LostOf(log'), t) = AppliedOf(log, t)
  BY <1>2, <1>3 DEF AppliedOf, Outcomes
<1>6. ASSUME NEW t \in Tx, NEW o \in Outcomes
      PROVE  HasIn(LostOf(log'), t, o) <=> HasIn(log, t, o)
  BY <1>2, <1>3 DEF HasIn
<1>7. QED
  BY <1>l, <1>4, <1>5, <1>6

\* In the loop the operations applied are a prefix, and while none is, only the
\* first can have been touched: D is what is left of the INTENTs I, A what is
\* applied and M what has moved a file.
LEMMA LoopPrefix ==
  ASSUME NEW I \in SUBSET Nat, NEW D \in SUBSET Nat, NEW A, NEW M \in SUBSET Nat,
         \A s \in I \ D : s \in A /\ \A u \in D : s < u,
         \A s \in D \cap A : \A x \in D : s <= x,
         M \subseteq I,
         \A s \in D \cap M : \A x \in D : s <= x
  PROVE  /\ \A s, u \in I : s < u /\ u \in A => s \in A
         /\ A = {} => \A s \in M : \A u \in I : s <= u
<1>1. ASSUME NEW s \in I, NEW u \in I, s < u, u \in A, s \notin A PROVE FALSE
  <2>1. s \in D
    BY <1>1
  <2>2. u \in D
    <3>1. SUFFICES ASSUME u \notin D PROVE FALSE
      OBVIOUS
    <3>2. u < s
      BY <2>1, <3>1
    <3>3. QED
      BY <1>1, <3>2
  <2>3. u <= s
    BY <1>1, <2>1, <2>2
  <2>4. QED
    BY <1>1, <2>3
<1>2. ASSUME A = {}, NEW s \in M, NEW u \in I PROVE s <= u
  BY <1>2
<1>3. QED
  BY <1>1, <1>2

\* A step of one thread keeps ApplyInv when it keeps who creates what, keeps
\* what is said of its own place, and touches no transaction but x, which
\* nobody else creates.
LEMMA StepKeeps ==
  ASSUME IInv, IInv', ApplyInv, NEW th \in Threads, NEW x \in Tx,
         \A u \in Threads \ {th} : /\ pc'[u] = pc[u] /\ job'[u] = job[u]
                                   /\ cur'[u] = cur[u] /\ todo'[u] = todo[u],
         tail = "whole" => tail' = "whole",
         tail' = "open" => tail = "open" /\ log' = log /\ moved' = moved,
         CreatorInv', Local(th)',
         \A t \in Tx \ {x} : Same(t),
         \/ Same(x)
         \/ /\ \A u \in Threads \ {th} : Creating(u) => cur[u] # x
            /\ \/ Creating(th)' /\ cur'[th] = x
               \/ PrefixOf(x)' /\ OneOpOf(x)' /\ OkOf(x)'
  PROVE  ApplyInv'
<1>f. /\ pc \in [Threads -> PCs] /\ todo \in [Threads -> SUBSET Nat]
      /\ cur \in [Threads -> Tx] /\ cur' \in [Threads -> Tx]
      /\ todo' \in [Threads -> SUBSET Nat] /\ moved' \in [Tx -> SUBSET Nat]
      /\ log' \in Seq(Record)
  BY DEF IInv, TypeOK
<1>1. ~TornWrites => tail' = "whole"
  BY DEF ApplyInv
<1>2. ASSUME NEW u \in Threads \ {th} PROVE Local(u)'
  <2>1. SUFFICES ASSUME Creating(u) PROVE Local(u)'
    BY DEF Local, Creating
  <2>2. cur[u] \in Tx /\ Same(cur[u])
    BY <1>f, <2>1
  <2>3. Local(u)
    BY DEF ApplyInv
  <2>4. CASE pc[u] \in Working
    <3>1. InLoop(u) /\ Whole(u)
      BY <2>1, <2>3, <2>4 DEF Local
    <3>2. InLoop(u)'
      BY <2>2, <3>1 DEF InLoop, Same, IsNext
    <3>3. Whole(u)'
      BY <2>2, <3>1 DEF Whole, Same
    <3>4. QED
      BY <2>4, <3>2, <3>3 DEF Local
  <2>5. CASE pc[u] \notin Working
    <3>1. BeforeLoop(u) /\ Whole(u)
      BY <2>1, <2>3, <2>5 DEF Local
    <3>2. BeforeLoop(u)'
      BY <2>2, <3>1 DEF BeforeLoop, Same
    <3>3. Whole(u)'
      BY <2>2, <3>1 DEF Whole, Same
    <3>4. QED
      BY <2>5, <3>2, <3>3 DEF Local
  <2>6. QED
    BY <2>4, <2>5
<1>3. ASSUME NEW t \in Tx, Same(t) PROVE PrefixOf(t)' /\ OneOpOf(t)' /\ OkOf(t)'
  <2>1. PrefixOf(t) /\ OneOpOf(t) /\ OkOf(t)
    BY DEF ApplyInv
  <2>2. PrefixOf(t)'
    BY <1>3, <2>1 DEF PrefixOf, PrefixIn, Same
  <2>3. OneOpOf(t)'
    BY <1>3, <2>1 DEF OneOpOf, OneOpIn, Same
  <2>4. OkOf(t)'
    BY <1>3, <2>1 DEF OkOf, Same
  <2>5. QED
    BY <2>2, <2>3, <2>4
<1>4. ASSUME Creating(th)', cur'[th] = x PROVE PrefixOf(x)' /\ OneOpOf(x)' /\ OkOf(x)'
  <2>1. OkOf(x)'
    BY <1>4 DEF CreatorInv, OkOf
  <2> DEFINE I == IntentsOf(log', x)
             A == AppliedOf(log', x)
  <2>2. I \in SUBSET Nat
    <3>1. \A i \in DOMAIN log' : log'[i] \in Record
      BY <1>f
    <3>2. QED
      BY <3>1 DEF IntentsOf, Record
  <2>3. (\A o \in Outcomes : ~HasIn(log', x, o)) => A = {}
    BY DEF HasIn, AppliedOf, Outcomes
  <2>4. CASE pc'[th] \in Working
    <3>1. InLoop(th)'
      BY <1>4, <2>4 DEF Local
    <3>2. todo'[th] \in SUBSET Nat /\ moved'[x] \in SUBSET Nat
      BY <1>f
    <3>3. /\ \A s \in I \ todo'[th] : s \in A /\ \A u \in todo'[th] : s < u
          /\ \A s \in todo'[th] \cap A : \A y \in todo'[th] : s <= y
          /\ moved'[x] \subseteq I
          /\ \A s \in todo'[th] \cap moved'[x] : \A y \in todo'[th] : s <= y
      <4>1. job'[th] = "create"
        BY <1>4 DEF Creating
      <4>2. \A s \in todo'[th] : IsNext(th, s)' => \A y \in todo'[th] : s <= y
        BY <4>1 DEF IsNext
      <4>3. QED
        BY <1>4, <3>1, <4>2 DEF InLoop
    <3> HIDE DEF I, A
    <3>4. /\ \A s, u \in I : s < u /\ u \in A => s \in A
          /\ A = {} => \A s \in moved'[x] : \A u \in I : s <= u
      BY <2>2, <3>2, <3>3, LoopPrefix
    <3>5. PrefixOf(x)'
      BY <3>4 DEF PrefixOf, PrefixIn, I, A
    <3>6. OneOpOf(x)'
      BY <2>3, <3>4 DEF OneOpOf, OneOpIn, I
    <3>7. QED
      BY <2>1, <3>5, <3>6
  <2>5. CASE pc'[th] \notin Working
    <3>1. BeforeLoop(th)'
      BY <1>4, <2>5 DEF Local
    <3>2. PrefixOf(x)' /\ OneOpOf(x)'
      BY <1>4, <3>1 DEF BeforeLoop, PrefixOf, PrefixIn, OneOpOf, OneOpIn
    <3>3. QED
      BY <2>1, <3>2
  <2>6. QED
    BY <2>4, <2>5
<1>5. \A t \in Tx : PrefixOf(t)' /\ OneOpOf(t)' /\ OkOf(t)'
  BY <1>3, <1>4
<1>6. OpenInv'
  <2>1. SUFFICES ASSUME tail' = "open" PROVE \A t \in Tx : PrefixIn(LastLost, t)' /\ OneOpIn(LastLost, t)'
    BY DEF OpenInv
  <2>2. /\ tail = "open" /\ log' = log /\ moved' = moved
        /\ \A t \in Tx : PrefixIn(LastLost, t) /\ OneOpIn(LastLost, t)
    BY <2>1 DEF ApplyInv, OpenInv
  <2>3. QED
    BY <2>2 DEF PrefixIn, OneOpIn, LastLost
<1>7. QED
  BY <1>1, <1>2, <1>5, <1>6 DEF ApplyInv

\* Who creates what changes in Begin only; every other step leaves the requests
\* alone, and files and replies of all transactions but the one it creates.
LEMMA CreatorKeeps ==
  ASSUME IInv, IInv', CreatorInv, NEW th \in Threads, req' = req,
         \A u \in Threads \ {th} : pc'[u] = pc[u] /\ job'[u] = job[u] /\ cur'[u] = cur[u],
         pc'[th] \in {"intent", "read"} => job'[th] = "create",
         pc'[th] = "next" => job'[th] # "create",
         Creating(th)' => Creating(th) /\ cur'[th] = cur[th] /\ reply'[cur[th]] # "ok",
         \A t \in Tx : ~Creating(th) \/ t # cur[th] =>
           moved'[t] = moved[t] /\ reply'[t] = reply[t]
  PROVE  CreatorInv'
<1>f. cur \in [Threads -> Tx] /\ cur' \in [Threads -> Tx]
  BY DEF IInv, TypeOK
<1>1. \A u \in Threads \ {th} : Creating(u)' <=> Creating(u)
  BY DEF Creating
<1>2. \A u \in Threads : Creating(u)' => Creating(u) /\ cur'[u] = cur[u]
  BY <1>1
<1>3. \A u, w \in Threads : Creating(u)' /\ Creating(w)' /\ cur'[u] = cur'[w] => u = w
  BY <1>2 DEF CreatorInv
<1>4. ASSUME NEW u \in Threads, Creating(u)' PROVE req'[cur'[u]] # <<>> /\ reply'[cur'[u]] # "ok"
  <2>1. CASE u = th
    BY <1>2, <1>4, <2>1 DEF CreatorInv
  <2>2. CASE u # th
    <3>1. Creating(u) /\ cur'[u] = cur[u] /\ cur[u] \in Tx
      BY <1>2, <1>4, <1>f
    <3>2. ~Creating(th) \/ cur[u] # cur[th]
      BY <2>2, <3>1 DEF CreatorInv
    <3>3. reply'[cur[u]] = reply[cur[u]] /\ reply[cur[u]] # "ok" /\ req[cur[u]] # <<>>
      BY <3>1, <3>2 DEF CreatorInv
    <3>4. QED
      BY <3>1, <3>3
  <2>3. QED
    BY <2>1, <2>2
<1>5. ASSUME NEW t \in Tx, req'[t] = <<>> PROVE moved'[t] = {} /\ reply'[t] # "ok"
  <2>1. ~Creating(th) \/ t # cur[th]
    BY <1>5 DEF CreatorInv
  <2>2. QED
    BY <1>5, <2>1 DEF CreatorInv
<1>6. /\ \A u \in Threads : pc'[u] \in {"intent", "read"} => job'[u] = "create"
      /\ \A u \in Threads : pc'[u] = "next" => job'[u] # "create"
  BY DEF CreatorInv
<1>7. QED
  BY <1>3, <1>4, <1>5, <1>6 DEF CreatorInv

\* An append to the log by a thread that creates nothing logs neither an INTENT
\* nor an APPLIED, so it leaves every transaction the same.
LEMMA OutsiderStep ==
  ASSUME IInv, IInv', ApplyInv, NEW th \in Threads,
         ~Creating(th), ~Creating(th)',
         pc'[th] \in {"intent", "read"} => job'[th] = "create",
         pc'[th] = "next" => job'[th] # "create",
         \A u \in Threads \ {th} : /\ pc'[u] = pc[u] /\ job'[u] = job[u]
                                   /\ cur'[u] = cur[u] /\ todo'[u] = todo[u],
         req' = req, moved' = moved, reply' = reply,
         \/ log' = log /\ tail' = tail
         \/ /\ tail # "open" /\ tail' = "whole"
            /\ \E s \in Nat, ty \in {"FAILED", "ROLLED_BACK"} : log' = Appended(cur[th], s, ty)
  PROVE  ApplyInv'
<1>f. log \in Seq(Record) /\ tail \in {"whole", "open", "torn"} /\ cur[th] \in Tx
  BY DEF IInv, TypeOK
<1>1. CreatorInv'
  BY CreatorKeeps DEF ApplyInv
<1>2. Local(th)'
  BY DEF Local
<1>3. \A t \in Tx : Same(t)
  <2>1. CASE log' = log
    BY <2>1 DEF Same, HasIn
  <2>2. ASSUME NEW s \in Nat, NEW ty \in {"FAILED", "ROLLED_BACK"},
               log' = Appended(cur[th], s, ty), tail # "open"
        PROVE  \A t \in Tx : Same(t)
    <3>1. ty \in Types /\ ty # "INTENT" /\ ty # "APPLIED"
      BY DEF Types, Outcomes
    <3>2. /\ \A u \in Tx : u # cur[th] => /\ IntentsOf(log', u) = IntentsOf(log, u)
                                          /\ AppliedOf(log', u) = AppliedOf(log, u)
          /\ IntentsOf(log', cur[th]) = IntentsOf(log, cur[th])
          /\ AppliedOf(log', cur[th]) = AppliedOf(log, cur[th])
          /\ \A u \in Tx : \A o \in Outcomes : HasIn(log, u, o) => HasIn(log', u, o)
      BY <1>f, <2>2, <3>1, AppendSets
    <3>3. QED
      BY <3>2 DEF Same
  <2>3. QED
    BY <2>1, <2>2
<1>4. QED
  BY <1>f, <1>1, <1>2, <1>3, StepKeeps

\* A creator's step touches its own transaction only, whatever it appends.
LEMMA CreatorStep ==
  ASSUME IInv, IInv', ApplyInv, NEW th \in Threads,
         Creating(th), req' = req, cur' = cur, job' = job,
         \A u \in Threads \ {th} : pc'[u] = pc[u] /\ todo'[u] = todo[u],
         pc'[th] # "next",
         \A t \in Tx \ {cur[th]} : moved'[t] = moved[t] /\ reply'[t] = reply[t],
         tail = "open" => moved' = moved,
         \/ log' = log /\ tail' = tail
         \/ /\ tail # "open" /\ tail' = "whole"
            /\ \E s \in Nat, ty \in Types : log' = Appended(cur[th], s, ty),
         Local(th)',
         Creating(th)' => reply'[cur[th]] # "ok",
         \/ Creating(th)'
         \/ PrefixOf(cur[th])' /\ OneOpOf(cur[th])' /\ OkOf(cur[th])'
  PROVE  ApplyInv'
<1>f. log \in Seq(Record) /\ tail \in {"whole", "open", "torn"} /\ cur[th] \in Tx /\ job[th] = "create"
  BY DEF IInv, TypeOK, Creating
<1>1. CreatorInv'
  BY <1>f, CreatorKeeps DEF ApplyInv
<1>2. \A u \in Threads \ {th} : Creating(u) => cur[u] # cur[th]
  BY DEF ApplyInv, CreatorInv
<1>3. \A t \in Tx \ {cur[th]} : Same(t)
  <2>1. CASE log' = log
    BY <2>1 DEF Same, HasIn
  <2>2. ASSUME NEW s \in Nat, NEW ty \in Types, log' = Appended(cur[th], s, ty),
               tail # "open"
        PROVE  \A t \in Tx \ {cur[th]} : Same(t)
    <3>1. /\ \A u \in Tx : u # cur[th] => /\ IntentsOf(log', u) = IntentsOf(log, u)
                                          /\ AppliedOf(log', u) = AppliedOf(log, u)
          /\ \A u \in Tx : \A o \in Outcomes : HasIn(log, u, o) => HasIn(log', u, o)
      BY <1>f, <2>2, AppendSets
    <3>2. QED
      BY <3>1 DEF Same
  <2>3. QED
    BY <2>1, <2>2
<1>4. QED
  BY <1>f, <1>1, <1>2, <1>3, StepKeeps

\* An append behind an open line loses what the line held, which no creator
\* has read, and adds nothing.
LEMMA LostStep ==
  ASSUME IInv, ApplyInv, CreatorInv', NEW th \in Threads,
         tail = "open", tail' = "whole", log' = LastLost, moved' = moved,
         \A u \in Threads \ {th} : /\ pc'[u] = pc[u] /\ job'[u] = job[u] /\ cur'[u] = cur[u],
         Creating(th)' => Creating(th) /\ cur'[th] = cur[th] /\ pc'[th] \notin Working
  PROVE  ApplyInv'
<1>1. TornWrites
  BY DEF ApplyInv
<1>2. log \in Seq(Record) /\ Len(log) > 0 /\ cur \in [Threads -> Tx]
  BY DEF IInv, TypeOK, TailInv
<1>3. ASSUME NEW u \in Threads, Creating(u)' PROVE Local(u)'
  <2>1. Creating(u) /\ cur'[u] = cur[u] /\ cur[u] \in Tx
    BY <1>2, <1>3 DEF Creating
  <2>2. pc[u] \notin Working /\ pc'[u] \notin Working
    BY <1>3, <2>1 DEF IInv, TailInv, Creating
  <2>3. BeforeLoop(u)
    BY <2>1, <2>2 DEF ApplyInv, Local
  <2>4. AppliedOf(log', cur[u]) \subseteq AppliedOf(log, cur[u])
    BY <1>2, <2>1, LostSets
  <2>5. BeforeLoop(u)'
    BY <2>1, <2>3, <2>4 DEF BeforeLoop
  <2>6. QED
    BY <1>1, <2>2, <2>5 DEF Local, Whole
<1>4. ASSUME NEW t \in Tx PROVE PrefixOf(t)' /\ OneOpOf(t)' /\ OkOf(t)'
  <2>1. PrefixIn(LastLost, t) /\ OneOpIn(LastLost, t)
    BY DEF ApplyInv, OpenInv
  <2>2. PrefixOf(t)'
    BY <2>1 DEF PrefixOf, PrefixIn
  <2>3. OneOpOf(t)'
    BY <2>1 DEF OneOpOf, OneOpIn
  <2>4. QED
    BY <1>1, <2>2, <2>3 DEF OkOf
<1>5. QED
  BY <1>1, <1>3, <1>4 DEF ApplyInv, OpenInv, Local

\* A crash that leaves a whole record without its newline: the log may say one
\* thing more of one transaction, and says the same without that record.
LEMMA OpensTail ==
  ASSUME IInv, IInv', ApplyInv, TornWrites, CreatorInv', \A u \in Threads : Local(u)',
         \A t \in Tx : OkOf(t)',
         moved' = moved, tail = "whole", tail' = "open",
         NEW th \in Threads, NEW s \in todo[th],
         pc[th] \in {"intent", "log_ok", "log_err"}, IsNext(th, s),
         NEW x \in Tx, x = cur[th], NEW ty \in Types, ty = RecordType(th),
         log' = Appended(x, s, ty)
  PROVE  ApplyInv'
<1> DEFINE I == IntentsOf(log, x)
           A == AppliedOf(log, x)
<1>f. /\ log \in Seq(Record) /\ s \in Nat /\ todo[th] \in SUBSET Nat
      /\ moved[x] \in SUBSET Nat /\ log' = Append(log, [tx |-> x, seq |-> s, type |-> ty])
  BY DEF IInv, TypeOK, Appended
<1>e. log \in Seq(Record) /\ s \in Nat
  BY <1>f
<1>s. \A i \in I : i \in Nat
  <2>1. \A i \in DOMAIN log : log[i] \in Record
    BY <1>f
  <2>2. QED
    BY <2>1 DEF IntentsOf, Record
<1>r. [tx |-> x, seq |-> s, type |-> ty] \in Record
  BY <1>f DEF Record, Types
<1>p. \A t \in Tx : PrefixOf(t) /\ OneOpOf(t)
  BY DEF ApplyInv
<1>1. OpenInv'
  <2>1. ASSUME NEW t \in Tx PROVE PrefixIn(LastLost, t)' /\ OneOpIn(LastLost, t)'
    <3>1. /\ IntentsOf(LastLost', t) = IntentsOf(log, t)
          /\ AppliedOf(LastLost', t) = AppliedOf(log, t)
          /\ \A o \in Outcomes : HasIn(LastLost', t, o) <=> HasIn(log, t, o)
      BY <1>f, <1>r, AppendLost
    <3>2. PrefixIn(LastLost, t)'
      BY <1>p, <3>1 DEF PrefixOf, PrefixIn
    <3>3. OneOpIn(LastLost, t)'
      BY <1>p, <3>1 DEF OneOpOf, OneOpIn
    <3>4. QED
      BY <3>2, <3>3
  <2>2. QED
    BY <2>1 DEF OpenInv
<1>2. /\ \A u \in Tx : u # x => /\ IntentsOf(log', u) = IntentsOf(log, u)
                                 /\ AppliedOf(log', u) = AppliedOf(log, u)
      /\ ty # "INTENT" => IntentsOf(log', x) = I
      /\ ty # "APPLIED" => AppliedOf(log', x) = A
      /\ ty = "APPLIED" => AppliedOf(log', x) = A \cup {s}
      /\ \A u \in Tx : \A o \in Outcomes : HasIn(log, u, o) => HasIn(log', u, o)
  <2>1. tail \in {"whole", "torn"}
    OBVIOUS
  <2>2. /\ \A u \in Tx : u # x => /\ IntentsOf(log', u) = IntentsOf(log, u)
                                   /\ AppliedOf(log', u) = AppliedOf(log, u)
        /\ \A u \in Tx : \A o \in Outcomes : HasIn(log, u, o) => HasIn(log', u, o)
    BY <1>e, <2>1, AppendSets
  <2>3. CASE ty = "APPLIED"
    BY <1>e, <2>1, <2>2, <2>3, AppendSets
  <2>4. CASE ty # "APPLIED"
    BY <1>e, <2>1, <2>2, <2>4, AppendSets
  <2>5. QED
    BY <2>3, <2>4
<1>3. ASSUME NEW t \in Tx, t # x PROVE PrefixOf(t)' /\ OneOpOf(t)'
  <2>1. PrefixOf(t)'
    BY <1>2, <1>3, <1>p DEF PrefixOf, PrefixIn
  <2>2. OneOpOf(t)'
    BY <1>2, <1>3, <1>p DEF OneOpOf, OneOpIn
  <2>3. QED
    BY <2>1, <2>2
<1>4. PrefixOf(x)' /\ OneOpOf(x)'
  <2>1. CASE ty = "INTENT"
    <3>1. pc[th] = "intent"
      BY <2>1 DEF RecordType
    <3>2. BeforeLoop(th)
      BY <3>1 DEF ApplyInv, CreatorInv, Local, Creating, Working
    <3>3. moved'[x] = {} /\ AppliedOf(log', x) = {}
      BY <1>2, <2>1, <3>2 DEF BeforeLoop
    <3>4. QED
      BY <3>3 DEF PrefixOf, PrefixIn, OneOpOf, OneOpIn
  <2>2. CASE ty = "APPLIED"
    <3>1. pc[th] = "log_ok" /\ job[th] = "create"
      BY <2>2 DEF RecordType
    <3>2. InLoop(th)
      BY <3>1 DEF ApplyInv, Local, Creating, Working
    <3>3. IntentsOf(log', x) = I /\ AppliedOf(log', x) = A \cup {s}
      BY <1>2, <2>2
    <3>4. todo[th] \cap A = {} /\ \A y \in todo[th] : s <= y
      BY <3>1, <3>2 DEF InLoop, IsNext
    <3>5. \A i, j \in I : i < j /\ j \in A \cup {s} => i \in A \cup {s}
      <4>1. ASSUME NEW i \in I, NEW j \in I, i < j, j \in A \cup {s}, i \notin A PROVE FALSE
        <5>1. i \in todo[th]
          BY <3>2, <4>1 DEF InLoop
        <5>2. i \in Nat /\ s <= i
          BY <1>f, <3>4, <5>1
        <5>3. j \in A
          BY <1>f, <4>1, <5>2
        <5>4. j \notin todo[th]
          BY <3>4, <5>3
        <5>5. j < i
          BY <3>2, <4>1, <5>1, <5>4 DEF InLoop
        <5>6. j \in Nat
          BY <1>s, <4>1
        <5>7. QED
          BY <4>1, <5>2, <5>5, <5>6
      <4>2. QED
        BY <4>1
    <3>6. PrefixOf(x)'
      BY <3>3, <3>5 DEF PrefixOf, PrefixIn
    <3>7. HasIn(log', x, "APPLIED")
      BY <3>3 DEF AppliedOf, HasIn
    <3>8. OneOpOf(x)'
      BY <3>7 DEF OneOpOf, OneOpIn, Outcomes
    <3>9. QED
      BY <3>6, <3>8
  <2>3. CASE ty \notin {"INTENT", "APPLIED"}
    <3>1. PrefixOf(x)'
      BY <1>2, <1>f, <1>p, <2>3 DEF PrefixOf, PrefixIn
    <3>2. OneOpOf(x)'
      BY <1>2, <1>f, <1>p, <2>3 DEF OneOpOf, OneOpIn
    <3>3. QED
      BY <3>1, <3>2
  <2>4. QED
    BY <2>1, <2>2, <2>3
<1>5. QED
  BY <1>1, <1>3, <1>4 DEF ApplyInv

\* ApplyInv holds of an empty log.
LEMMA InitApplyInv == Init => ApplyInv
<1> SUFFICES ASSUME Init PROVE ApplyInv
  OBVIOUS
<1>1. \A th \in Threads : ~Creating(th)
  BY DEF Init, Creating, Working
<1>2. CreatorInv
  BY <1>1 DEF Init, CreatorInv
<1>3. \A t \in Tx : PrefixOf(t) /\ OneOpOf(t) /\ OkOf(t)
  BY DEF Init, PrefixOf, PrefixIn, OneOpOf, OneOpIn, OkOf, IntentsOf
<1>4. QED
  BY <1>1, <1>2, <1>3 DEF ApplyInv, OpenInv, Local, Init

\* ApplyInv is inductive: one step per action, the appends of a creator in detail.
LEMMA NextApplyInv == IInv /\ ApplyInv /\ [Next]_vars => ApplyInv'
<1> SUFFICES ASSUME IInv, ApplyInv, [Next]_vars PROVE ApplyInv'
  OBVIOUS
<1>i. IInv'
  BY NextIInv
<1>f. /\ pc \in [Threads -> PCs] /\ job \in [Threads -> Jobs]
      /\ todo \in [Threads -> SUBSET Nat] /\ cur \in [Threads -> Tx]
      /\ req \in [Tx -> Seq(Op)] /\ moved \in [Tx -> SUBSET Nat]
      /\ reply \in [Tx -> {"none", "ok", "error"}] /\ log \in Seq(Record)
      /\ tail \in {"whole", "open", "torn"}
  BY DEF IInv, TypeOK
<1>n. \A th \in Threads : Intents(cur[th]) = IntentsOf(log, cur[th])
  BY DEF Intents, IntentsOf
<1>c. /\ \A th \in Threads : pc[th] \in {"intent", "read"} => job[th] = "create"
      /\ \A th \in Threads : pc[th] = "next" => job[th] # "create"
      /\ \A th \in Threads : Creating(th) => req[cur[th]] # <<>> /\ reply[cur[th]] # "ok"
  BY DEF ApplyInv, CreatorInv
<1>l. /\ \A th \in Threads : Creating(th) /\ pc[th] \in Working => InLoop(th) /\ Whole(th)
      /\ \A th \in Threads : Creating(th) /\ pc[th] \notin Working => BeforeLoop(th) /\ Whole(th)
  BY DEF ApplyInv, Local
<1>p. \A t \in Tx : PrefixOf(t) /\ OneOpOf(t) /\ OkOf(t)
  BY DEF ApplyInv
<1>t. ~TornWrites => tail = "whole"
  BY DEF ApplyInv
<1>w. /\ \A l \in Working : l \notin {"idle", "intent", "read", "next"}
      /\ \A l \in PCs : l \in Working \/ l \in {"idle", "intent", "read", "next"}
  BY DEF Working, PCs
<1> USE DEF sys, thr, cnt, hist
<1>1. ASSUME NEW th \in Threads, NEW t \in Tx, Begin(th, t) PROVE ApplyInv'
  <2>1. PICK ops \in Requests : /\ req' = [req EXCEPT ![t] = ops]
                                /\ todo' = [todo EXCEPT ![th] = DOMAIN ops]
    BY <1>1 DEF Begin
  <2>2. /\ pc[th] = "idle" /\ req[t] = <<>>
        /\ pc' = [pc EXCEPT ![th] = "intent"]
        /\ job' = [job EXCEPT ![th] = "create"]
        /\ cur' = [cur EXCEPT ![th] = t]
        /\ log' = log /\ tail' = tail /\ reply' = reply /\ moved' = moved
    BY <1>1 DEF Begin, Goto
  <2>3. ops # <<>> /\ req'[t] = ops
    BY <1>f, <2>1, OpsAssumption
  <2>4. \A u \in Threads \ {th} : /\ pc'[u] = pc[u] /\ job'[u] = job[u]
                                  /\ cur'[u] = cur[u] /\ todo'[u] = todo[u]
    BY <1>f, <2>1, <2>2
  <2>5. \A u \in Threads \ {th} : Creating(u) => cur[u] # t
    BY <1>c, <2>2
  <2>6. \A x \in Tx \ {t} : Same(x)
    BY <1>f, <2>1, <2>2 DEF Same
  <2>7. pc'[th] = "intent" /\ job'[th] = "create" /\ cur'[th] = t /\ todo'[th] = DOMAIN ops
    BY <1>f, <2>1, <2>2
  <2>8. moved[t] = {} /\ reply[t] # "ok"
    BY <2>2 DEF ApplyInv, CreatorInv
  <2>9. CreatorInv'
    <3>1. /\ \A u \in Threads : pc'[u] \in {"intent", "read"} => job'[u] = "create"
          /\ \A u \in Threads : pc'[u] = "next" => job'[u] # "create"
      BY <1>c, <2>4, <2>7
    <3>2. \A u \in Threads \ {th} : /\ Creating(u)' <=> Creating(u)
                                    /\ cur'[u] = cur[u]
      BY <2>4 DEF Creating
    <3>3. \A u \in Threads : Creating(u)' => req'[cur'[u]] # <<>> /\ reply'[cur'[u]] # "ok"
      BY <1>c, <1>f, <2>1, <2>2, <2>3, <2>5, <2>7, <2>8, <3>2
    <3>4. \A u, v \in Threads : Creating(u)' /\ Creating(v)' /\ cur'[u] = cur'[v] => u = v
      BY <2>5, <2>7, <3>2 DEF ApplyInv, CreatorInv
    <3>5. \A x \in Tx : req'[x] = <<>> => moved'[x] = {} /\ reply'[x] # "ok"
      BY <1>f, <2>1, <2>2, <2>8 DEF ApplyInv, CreatorInv
    <3>6. QED
      BY <3>1, <3>3, <3>4, <3>5 DEF CreatorInv
  <2>10. AppliedOf(log, t) = {}
    <3>1. SUFFICES ASSUME NEW i \in DOMAIN log, log[i].tx = t, log[i].type = "APPLIED"
                   PROVE  FALSE
      BY DEF AppliedOf
    <3>2. PICK j \in 1..(i - 1) : log[j].tx = log[i].tx /\ log[j].type \in IntentTypes
      BY <3>1 DEF IInv, IntentBeforeOutcome, Outcomes, IntentTypes
    <3>3. j \in DOMAIN log
      BY <1>f, <3>1, <3>2
    <3>4. log[j].seq \in DOMAIN req[log[j].tx]
      BY <3>2, <3>3 DEF IInv, RequestInv
    <3>5. DOMAIN req[t] = {}
      BY <2>2
    <3>6. QED
      BY <3>1, <3>2, <3>4, <3>5
  <2>11. Local(th)'
    <3>1. BeforeLoop(th)'
      BY <2>2, <2>7, <2>8, <2>10 DEF BeforeLoop
    <3>2. Whole(th)'
      BY <2>3, <2>7 DEF Whole
    <3>3. QED
      BY <1>w, <2>7, <3>1, <3>2 DEF Local
  <2>12. Creating(th)'
    BY <2>7 DEF Creating
  <2>13. /\ tail = "whole" => tail' = "whole"
         /\ tail' = "open" => tail = "open" /\ log' = log /\ moved' = moved
    BY <2>2
  <2>14. QED
    BY <1>i, <2>4, <2>5, <2>6, <2>7, <2>9, <2>11, <2>12, <2>13, StepKeeps
\* An append behind an open line.
<1>o. ASSUME NEW th \in Threads, NEW s \in todo[th], tail = "open",
             log' = Appended(cur[th], s, RecordType(th)), tail' = "whole",
             \/ AppendIntent(th, s) \/ LogOutcome(th, s) \/ LogFailure(th, s)
             \/ AppendError(th, s)
      PROVE  ApplyInv'
  <2>1. /\ log' = LastLost /\ req' = req /\ job' = job /\ cur' = cur /\ moved' = moved
        /\ \A u \in Threads \ {th} : pc'[u] = pc[u]
    BY <1>o, <1>f DEF Appended, AppendIntent, LogOutcome, LogFailure, AppendError, Finish, Goto
  <2>2. CASE Creating(th)
    <3>1. pc[th] = "intent"
      <4>1. pc[th] \notin Working \cup {"read"}
        BY <1>l, <1>o, <1>w, <2>2 DEF InLoop, BeforeLoop
      <4>2. QED
        BY <2>2, <4>1 DEF Creating
    <3>2. /\ AppendIntent(th, s) \/ AppendError(th, s)
          /\ \A t \in Tx \ {cur[th]} : reply'[t] = reply[t]
          /\ \/ pc'[th] \in {"intent", "read"} /\ reply' = reply
             \/ pc'[th] = "idle"
      BY <1>o, <1>f, <2>2, <3>1
         DEF AppendIntent, LogOutcome, LogFailure, AppendError, Finish, Goto, Creating
    <3>3. Creating(th)' => reply'[cur[th]] # "ok" /\ pc'[th] \notin Working
      BY <1>c, <1>w, <2>2, <3>2 DEF Creating
    <3>4. job[th] = "create" /\ pc'[th] # "next"
      BY <2>2, <3>2 DEF Creating
    <3>5. CreatorInv'
      BY <1>i, <2>1, <2>2, <3>2, <3>3, <3>4, CreatorKeeps DEF ApplyInv
    <3>6. QED
      BY <1>o, <2>1, <2>2, <3>3, <3>5, LostStep
  <2>3. CASE ~Creating(th)
    <3>1. pc[th] \in {"log_ok", "log_err"} /\ job[th] # "create"
      BY <1>o, <1>c, <2>3
         DEF AppendIntent, LogOutcome, LogFailure, AppendError, Creating, Working
    <3>2. reply' = reply /\ pc'[th] \notin {"intent", "read"}
      BY <1>o, <1>f, <3>1
         DEF AppendIntent, LogOutcome, LogFailure, AppendError, Finish, Goto
    <3>3. ~Creating(th)'
      BY <2>1, <3>1 DEF Creating
    <3>4. CreatorInv'
      BY <1>i, <2>1, <3>1, <3>2, <3>3, CreatorKeeps DEF ApplyInv
    <3>5. QED
      BY <1>o, <2>1, <3>3, <3>4, LostStep
  <2>4. QED
    BY <2>2, <2>3
\* What a thread at an operation of another job, or at rest, does.
<1>2. ASSUME NEW th \in Threads, ~Creating(th),
             \/ \E s \in todo[th] : Step(th, s) \/ MoveFails(th, s) \/ AppendError(th, s)
             \/ ReadIntents(th) \/ RecoverNext(th) \/ StartRecover(th)
             \/ \E t \in Tx : StartRollback(th, t)
      PROVE  ApplyInv'
  <2>1. pc[th] \notin {"intent", "read"}
    BY <1>2, <1>c DEF Creating
  <2>2. pc[th] \in Working => job[th] # "create"
    BY <1>2 DEF Creating
  <2>3. ASSUME NEW s \in todo[th], \/ Check(th, s) \/ Move(th, s) \/ MoveMissing(th, s)
                                   \/ Touch(th, s) \/ MoveFails(th, s)
        PROVE  ApplyInv'
    <3>1. /\ pc[th] \in Working /\ pc'[th] \in Working
          /\ log' = log /\ tail' = tail /\ req' = req /\ job' = job /\ cur' = cur
          /\ todo' = todo /\ reply' = reply
          /\ \A u \in Threads \ {th} : pc'[u] = pc[u]
      <4>1. Decide(OpOf(th, s)) \in {"noop", "fail", "move", "touch"}
        BY OpOfType DEF IInv, Decide, Op, Kinds
      <4>2. QED
        BY <2>3, <1>f, <4>1 DEF Check, Move, MoveMissing, Touch, MoveFails, Goto, Working
    <3>2. moved' = moved
      BY <2>2, <2>3, <3>1 DEF Check, Move, MoveMissing, Touch, MoveFails, Recorded
    <3>3. ~Creating(th)' /\ pc'[th] \notin {"intent", "read", "next"}
      BY <1>w, <2>2, <3>1 DEF Creating
    <3>4. QED
      BY <1>2, <1>i, <3>1, <3>2, <3>3, OutsiderStep
  <2>4. ASSUME NEW s \in todo[th], LogOutcome(th, s) \/ LogFailure(th, s) \/ AppendError(th, s)
        PROVE  ApplyInv'
    <3>1. pc[th] \in {"log_ok", "log_err"}
      BY <2>1, <2>4 DEF LogOutcome, LogFailure, AppendError
    <3>2. job[th] # "create"
      BY <2>2, <3>1 DEF Working
    <3>3. /\ req' = req /\ job' = job /\ cur' = cur /\ reply' = reply /\ moved' = moved
          /\ \A u \in Threads \ {th} : pc'[u] = pc[u] /\ todo'[u] = todo[u]
          /\ pc'[th] \notin {"intent", "read"}
      BY <1>f, <2>4, <3>1, <3>2 DEF LogOutcome, LogFailure, AppendError, Finish, Goto
    <3>4. \/ log' = log /\ tail' = tail
          \/ log' = Appended(cur[th], s, RecordType(th)) /\ tail' = "whole"
      BY <2>4 DEF LogOutcome, LogFailure, AppendError
    <3>5. CASE tail = "open" /\ log' = Appended(cur[th], s, RecordType(th)) /\ tail' = "whole"
      BY <1>o, <2>4, <3>5
    <3>6. RecordType(th) \in {"FAILED", "ROLLED_BACK"}
      BY <3>1, <3>2 DEF RecordType
    <3>7. ~Creating(th)' /\ (pc'[th] = "next" => job'[th] # "create")
      BY <3>2, <3>3 DEF Creating
    <3>8. s \in Nat
      BY <1>f
    <3>9. QED
      BY <1>2, <1>i, <3>3, <3>4, <3>5, <3>6, <3>7, <3>8, OutsiderStep
  <2>5. CASE StartRecover(th) \/ \E t \in Tx : StartRollback(th, t)
    <3>1. /\ log' = log /\ req' = req /\ reply' = reply /\ moved' = moved /\ tail' = tail
          /\ \A u \in Threads \ {th} : /\ pc'[u] = pc[u] /\ job'[u] = job[u]
                                       /\ cur'[u] = cur[u] /\ todo'[u] = todo[u]
          /\ pc'[th] \in {"next", "check"} /\ job'[th] # "create"
      BY <1>f, <2>5 DEF StartRecover, StartRollback, Goto
    <3>2. ~Creating(th)'
      BY <3>1 DEF Creating
    <3>3. QED
      BY <1>2, <1>i, <3>1, <3>2, OutsiderStep
  <2>6. CASE RecoverNext(th)
    <3>1. /\ log' = log /\ req' = req /\ reply' = reply /\ moved' = moved /\ tail' = tail
          /\ \A u \in Threads \ {th} : /\ pc'[u] = pc[u] /\ job'[u] = job[u]
                                       /\ cur'[u] = cur[u] /\ todo'[u] = todo[u]
          /\ pc[th] = "next" /\ job' = job /\ pc'[th] \in {"idle", "check"}
      BY <1>f, <2>6 DEF RecoverNext, Goto
    <3>2. ~Creating(th)'
      BY <1>c, <3>1 DEF Creating
    <3>3. QED
      BY <1>2, <1>i, <3>1, <3>2, OutsiderStep
  <2>7. QED
    BY <1>2, <2>1, <2>3, <2>4, <2>5, <2>6 DEF Step, AppendIntent, ReadIntents
\* A creator logs its INTENTs.
<1>3. ASSUME NEW th \in Threads, NEW s \in todo[th], Creating(th), AppendIntent(th, s),
             tail # "open"
      PROVE  ApplyInv'
  <2> DEFINE t == cur[th]
  <2>1. /\ pc[th] = "intent" /\ pc'[th] \in {"intent", "read"}
        /\ req' = req /\ cur' = cur /\ job' = job /\ moved' = moved /\ reply' = reply
        /\ todo'[th] = todo[th] \ {s}
        /\ pc'[th] = "read" => todo'[th] = {}
        /\ \A u \in Threads \ {th} : pc'[u] = pc[u] /\ todo'[u] = todo[u]
        /\ log' = Appended(t, s, "INTENT") /\ t \in Tx /\ s \in Nat
        /\ tail' = "whole"
    BY <1>3, <1>f DEF AppendIntent, Goto, RecordType
  <2>2. BeforeLoop(th) /\ Whole(th)
    BY <1>l, <1>w, <1>3, <2>1
  <2>3. /\ AppliedOf(log', t) = AppliedOf(log, t)
        /\ tail = "whole" => IntentsOf(log', t) = IntentsOf(log, t) \cup {s}
    BY <1>3, <1>f, <2>1, AppendSets DEF Types
  <2>4. BeforeLoop(th)'
    BY <2>1, <2>2, <2>3 DEF BeforeLoop
  <2>5. Whole(th)'
    BY <1>t, <2>1, <2>2, <2>3 DEF Whole
  <2>6. Local(th)' /\ Creating(th)'
    BY <1>3, <1>w, <2>1, <2>4, <2>5 DEF Local, Creating
  <2>7. reply'[t] # "ok"
    BY <1>c, <1>3, <2>1
  <2>8. "INTENT" \in Types
    BY DEF Types
  <2>9. QED
    BY <1>3, <1>i, <2>1, <2>6, <2>7, <2>8, CreatorStep
\* It reads them back: all, or none when the only one was torn.
<1>4. ASSUME NEW th \in Threads, Creating(th), ReadIntents(th) PROVE ApplyInv'
  <2> DEFINE t == cur[th]
  <2>1. /\ pc[th] = "read" /\ job[th] = "create" /\ t \in Tx
        /\ req' = req /\ cur' = cur /\ job' = job /\ moved' = moved /\ log' = log
        /\ tail' = tail
        /\ \A u \in Threads \ {th} : pc'[u] = pc[u] /\ todo'[u] = todo[u]
        /\ \A u \in Tx \ {t} : reply'[u] = reply[u]
    BY <1>4, <1>f DEF ReadIntents, Finish, Goto, Creating
  <2>2. BeforeLoop(th) /\ Whole(th)
    BY <1>l, <1>w, <1>4, <2>1
  <2>4. CASE Intents(t) = {}
    <3>1. pc'[th] = "idle"
      BY <1>4, <1>f, <2>1, <2>4 DEF ReadIntents, Finish, Goto
    <3>2. ~Creating(th)' /\ Local(th)'
      BY <1>w, <3>1 DEF Creating, Local
    <3>3. IntentsOf(log', t) = {}
      BY <1>n, <2>1, <2>4
    <3>4. PrefixOf(t)' /\ OneOpOf(t)'
      BY <2>1, <3>3 DEF PrefixOf, PrefixIn, OneOpOf, OneOpIn
    <3>5. OkOf(t)'
      BY <2>1, <2>2, <3>3 DEF OkOf, Whole
    <3>6. QED
      BY <1>4, <1>i, <2>1, <3>1, <3>2, <3>4, <3>5, CreatorStep
  <2>5. CASE Intents(t) # {}
    <3>1. pc'[th] = "check" /\ todo'[th] = IntentsOf(log, t) /\ reply' = reply
      BY <1>4, <1>f, <1>n, <2>1, <2>5 DEF ReadIntents, Goto
    <3>2. Creating(th)'
      BY <2>1, <3>1 DEF Creating, Working
    <3>3. InLoop(th)'
      BY <2>1, <2>2, <3>1 DEF BeforeLoop, InLoop
    <3>4. Whole(th)'
      BY <2>1, <2>2, <3>1 DEF Whole
    <3>5. Local(th)'
      BY <3>1, <3>3, <3>4 DEF Local, Working
    <3>6. reply'[t] # "ok"
      BY <1>c, <1>4, <3>1
    <3>7. QED
      BY <1>4, <1>i, <2>1, <3>1, <3>2, <3>5, <3>6, CreatorStep
  <2>6. QED
    BY <2>4, <2>5
\* It tests and moves the files of one operation.
<1>5. ASSUME NEW th \in Threads, NEW s \in todo[th], Creating(th),
             \/ Check(th, s) \/ Move(th, s) \/ MoveMissing(th, s) \/ Touch(th, s)
             \/ MoveFails(th, s)
      PROVE  ApplyInv'
  <2> DEFINE t == cur[th]
  <2>1. /\ pc[th] \in {"check", "move", "touch"} /\ pc'[th] \in Working
        /\ IsNext(th, s) /\ job[th] = "create" /\ t \in Tx
        /\ log' = log /\ tail' = tail /\ req' = req /\ job' = job /\ cur' = cur
        /\ todo' = todo /\ reply' = reply
        /\ \A u \in Threads \ {th} : pc'[u] = pc[u]
    <3>1. Decide(OpOf(th, s)) \in {"noop", "fail", "move", "touch"}
      BY OpOfType DEF IInv, Decide, Op, Kinds
    <3>2. QED
      BY <1>5, <1>f, <3>1 DEF Check, Move, MoveMissing, Touch, MoveFails, Goto, Working, Creating
  <2>2. InLoop(th) /\ Whole(th)
    BY <1>l, <1>5, <2>1 DEF Working
  <2>3. /\ \A u \in Tx \ {t} : moved'[u] = moved[u]
        /\ \/ moved'[t] = moved[t]
           \/ moved'[t] = moved[t] \cup {s} /\ pc'[th] = "log_ok"
    <3>1. CASE Check(th, s) \/ MoveMissing(th, s) \/ MoveFails(th, s)
      BY <3>1 DEF Check, MoveMissing, MoveFails
    <3>2. CASE Move(th, s) \/ Touch(th, s)
      <4>1. moved' = [moved EXCEPT ![t] = @ \cup {s}] /\ pc'[th] = "log_ok"
        BY <1>f, <2>1, <3>2 DEF Move, Touch, Recorded, Goto
      <4>2. QED
        BY <1>f, <2>1, <4>1
    <3>3. QED
      BY <1>5, <3>1, <3>2
  <2>4. todo[th] \cap AppliedOf(log, t) = {} /\ todo[th] \cap moved[t] = {}
    BY <2>1, <2>2 DEF InLoop
  <2>5. s \in IntentsOf(log, t)
    BY <1>5, <1>n, <2>1 DEF IInv, LoopInv, Working
  <2>6. IsNext(th, s)'
    BY <2>1 DEF IsNext
  <2>7. InLoop(th)'
    BY <2>1, <2>2, <2>3, <2>4, <2>5, <2>6 DEF InLoop
  <2>8. Whole(th)'
    <3>1. pc[th] # "intent" /\ pc'[th] # "intent"
      BY <1>w, <2>1
    <3>2. QED
      BY <2>1, <2>2, <3>1 DEF Whole
  <2>9. Local(th)' /\ Creating(th)'
    BY <2>1, <2>7, <2>8 DEF Local, Creating
  <2>10. tail = "whole"
    BY <2>2 DEF InLoop
  <2>11. reply'[t] # "ok" /\ pc'[th] # "next"
    BY <1>c, <1>5, <1>w, <2>1
  <2>12. QED
    BY <1>5, <1>i, <2>1, <2>3, <2>9, <2>10, <2>11, CreatorStep
\* It logs APPLIED: the first of the operations left joins those applied.
<1>6. ASSUME NEW th \in Threads, NEW s \in todo[th], Creating(th), LogOutcome(th, s)
      PROVE  ApplyInv'
  <2> DEFINE t == cur[th]
  <2>1. /\ pc[th] = "log_ok" /\ IsNext(th, s) /\ job[th] = "create" /\ t \in Tx /\ s \in Nat
        /\ req' = req /\ job' = job /\ cur' = cur /\ moved' = moved /\ tail' = "whole"
        /\ log' = Appended(t, s, "APPLIED")
        /\ \A u \in Threads \ {th} : pc'[u] = pc[u] /\ todo'[u] = todo[u]
        /\ \A u \in Tx \ {t} : reply'[u] = reply[u]
    BY <1>6, <1>f DEF LogOutcome, Finish, Goto, Creating, RecordType
  <2>2. InLoop(th) /\ Whole(th)
    BY <1>l, <1>6, <2>1 DEF Working
  <2>6. tail = "whole"
    BY <2>2 DEF InLoop
  <2>3. /\ IntentsOf(log', t) = IntentsOf(log, t)
        /\ AppliedOf(log', t) = AppliedOf(log, t) \cup {s}
    BY <1>f, <2>1, <2>6, AppendSets DEF Types, Outcomes
  <2>4. /\ todo[th] \cap AppliedOf(log, t) = {}
        /\ \A x \in todo[th] \cap moved[t] : IsNext(th, x)
        /\ \A x \in todo[th] : s <= x
    BY <2>1, <2>2 DEF InLoop, IsNext
  <2>5. \A x \in todo[th] \cap moved[t] : x = s
    <3>1. ASSUME NEW x \in todo[th], x \in moved[t] PROVE x = s
      <4>1. IsNext(th, x) /\ s <= x /\ x \in Nat
        BY <1>f, <2>4, <3>1
      <4>2. x <= s
        BY <2>1, <4>1 DEF IsNext
      <4>3. QED
        BY <2>1, <4>1, <4>2
    <3>2. QED
      BY <3>1
  <2>7. "APPLIED" \in Types
    BY DEF Types, Outcomes
  <2>8. CASE todo[th] = {s}
    <3>1. pc'[th] = "idle"
      BY <1>6, <1>f, <2>1, <2>8 DEF LogOutcome, Finish, Goto
    <3>2. ~Creating(th)' /\ Local(th)'
      BY <1>w, <3>1 DEF Creating, Local
    <3>3. IntentsOf(log', t) \subseteq AppliedOf(log', t)
      BY <2>2, <2>3, <2>8 DEF InLoop
    <3>4. PrefixOf(t)'
      BY <2>1, <3>3 DEF PrefixOf, PrefixIn
    <3>5. OneOpOf(t)'
      <4>1. \E i \in DOMAIN log' : log'[i].tx = t /\ log'[i].type = "APPLIED"
        BY <2>3 DEF AppliedOf
      <4>2. QED
        BY <2>1, <4>1 DEF OneOpOf, OneOpIn, HasIn, Outcomes
    <3>6. OkOf(t)'
      BY <2>1, <2>2, <2>3, <3>3 DEF OkOf, Whole
    <3>7. QED
      BY <1>6, <1>i, <2>1, <2>6, <2>7, <3>1, <3>2, <3>4, <3>5, <3>6, CreatorStep
  <2>9. CASE todo[th] # {s}
    <3>1. pc'[th] = "check" /\ todo'[th] = todo[th] \ {s} /\ reply' = reply
      BY <1>6, <1>f, <2>1, <2>9 DEF LogOutcome, Goto
    <3>2. InLoop(th)'
      <4>1. todo'[th] \cap moved[t] = {} /\ todo'[th] \cap AppliedOf(log', t) = {}
        BY <2>3, <2>4, <2>5, <3>1
      <4>2. \A x \in todo'[th] : s < x
        BY <1>f, <2>1, <2>4, <3>1
      <4>3. \A x \in IntentsOf(log', t) \ todo'[th] :
              x \in AppliedOf(log', t) /\ \A u \in todo'[th] : x < u
        BY <2>2, <2>3, <3>1, <4>2 DEF InLoop
      <4>4. moved'[t] \subseteq IntentsOf(log', t)
        BY <2>1, <2>2, <2>3 DEF InLoop
      <4>5. QED
        BY <2>1, <4>1, <4>3, <4>4 DEF InLoop
    <3>3. Whole(th)'
      BY <2>1, <2>2, <2>3, <3>1 DEF Whole
    <3>4. Local(th)' /\ Creating(th)'
      BY <2>1, <3>1, <3>2, <3>3 DEF Local, Creating, Working
    <3>5. reply'[t] # "ok"
      BY <1>c, <1>6, <3>1
    <3>6. QED
      BY <1>6, <1>i, <2>1, <2>6, <2>7, <3>1, <3>4, <3>5, CreatorStep
  <2>10. QED
    BY <2>8, <2>9
\* It logs FAILED and ends.
<1>7. ASSUME NEW th \in Threads, NEW s \in todo[th], Creating(th), LogFailure(th, s),
             tail # "open"
      PROVE  ApplyInv'
  <2> DEFINE t == cur[th]
  <2>1. /\ job[th] = "create" /\ t \in Tx /\ s \in Nat
        /\ req' = req /\ job' = job /\ cur' = cur /\ moved' = moved /\ tail' = "whole"
        /\ log' = Appended(t, s, "FAILED") /\ pc'[th] = "idle" /\ reply'[t] = "error"
        /\ \A u \in Threads \ {th} : pc'[u] = pc[u] /\ todo'[u] = todo[u]
        /\ \A u \in Tx \ {t} : reply'[u] = reply[u]
    BY <1>7, <1>f DEF LogFailure, Finish, Goto, Creating, RecordType
  <2>2. /\ IntentsOf(log', t) = IntentsOf(log, t) /\ AppliedOf(log', t) = AppliedOf(log, t)
        /\ \A o \in Outcomes : HasIn(log, t, o) => HasIn(log', t, o)
        /\ "FAILED" \in Types
    BY <1>7, <1>f, <2>1, AppendSets DEF Types, Outcomes
  <2>3. PrefixOf(t)' /\ OneOpOf(t)' /\ OkOf(t)'
    BY <1>p, <2>1, <2>2 DEF PrefixOf, PrefixIn, OneOpOf, OneOpIn, OkOf
  <2>4. ~Creating(th)' /\ Local(th)'
    BY <1>w, <2>1 DEF Creating, Local
  <2>5. QED
    BY <1>7, <1>i, <2>1, <2>2, <2>3, <2>4, CreatorStep
\* An append of its raises: in the loop it goes on to log FAILED, or it ends.
<1>8. ASSUME NEW th \in Threads, NEW s \in todo[th], Creating(th), AppendError(th, s),
             \/ log' = log /\ tail' = tail
             \/ /\ tail # "open" /\ tail' = "whole"
                /\ log' = Appended(cur[th], s, RecordType(th))
      PROVE  ApplyInv'
  <2> DEFINE t == cur[th]
  <2>1. /\ job[th] = "create" /\ t \in Tx /\ s \in Nat /\ IsNext(th, s)
        /\ req' = req /\ job' = job /\ cur' = cur /\ moved' = moved
        /\ \A u \in Threads \ {th} : pc'[u] = pc[u] /\ todo'[u] = todo[u]
        /\ \A u \in Tx \ {t} : reply'[u] = reply[u]
    BY <1>8, <1>f DEF AppendError, Finish, Goto, Creating
  <2>2. log' = log \/ (log' = Appended(t, s, RecordType(th)) /\ tail # "open")
    BY <1>8
  <2>3. CASE pc[th] = "log_ok"
    <3>1. pc'[th] = "log_err" /\ todo' = todo /\ reply' = reply /\ RecordType(th) = "APPLIED"
      BY <1>8, <1>f, <2>1, <2>3 DEF AppendError, Goto, RecordType
    <3>2. InLoop(th) /\ Whole(th)
      BY <1>l, <1>8, <2>3 DEF Working
    <3>3. /\ IntentsOf(log', t) = IntentsOf(log, t)
          /\ \/ AppliedOf(log', t) = AppliedOf(log, t)
             \/ AppliedOf(log', t) = AppliedOf(log, t) \cup {s}
          /\ tail = "whole"
      <4>1. tail = "whole"
        BY <3>2 DEF InLoop
      <4>2. QED
        BY <1>f, <2>1, <2>2, <3>1, <4>1, AppendSets DEF Types, Outcomes
    <3>4. todo[th] \cap AppliedOf(log, t) = {}
      BY <2>3, <3>2 DEF InLoop
    <3>5. \A x \in todo[th] : IsNext(th, x)' <=> IsNext(th, x)
      BY <2>1, <3>1 DEF IsNext
    <3>6. InLoop(th)'
      <4>1. tail' = "whole"
        BY <1>8, <3>3
      <4>2. QED
        BY <2>1, <2>3, <3>1, <3>2, <3>3, <3>4, <3>5, <4>1 DEF InLoop
    <3>7. Whole(th)'
      BY <2>1, <2>3, <3>1, <3>2, <3>3 DEF Whole
    <3>8. Local(th)' /\ Creating(th)'
      BY <2>1, <3>1, <3>6, <3>7 DEF Local, Creating, Working
    <3>9. reply'[t] # "ok" /\ RecordType(th) \in Types
      BY <1>c, <1>8, <3>1 DEF Types, Outcomes
    <3>10. QED
      BY <1>8, <1>i, <2>1, <3>1, <3>8, <3>9, CreatorStep
  <2>4. CASE pc[th] # "log_ok"
    <3>1. /\ pc[th] \in {"intent", "log_err"} /\ pc'[th] = "idle" /\ reply'[t] = "error"
          /\ RecordType(th) \in {"INTENT", "FAILED"}
      BY <1>8, <1>f, <2>1, <2>4 DEF AppendError, Finish, Goto, RecordType
    <3>2. ~Creating(th)' /\ Local(th)' /\ OkOf(t)'
      <4>1. ~Creating(th)' /\ Local(th)'
        BY <1>w, <3>1 DEF Creating, Local
      <4>2. OkOf(t)'
        <5>1. reply'[t] # "ok"
          BY <3>1
        <5>2. QED
          BY <2>1, <5>1 DEF OkOf
      <4>3. QED
        BY <4>1, <4>2
    <3>3. RecordType(th) \in Types
      BY <3>1 DEF Types, Outcomes
    <3>4. /\ AppliedOf(log', t) = AppliedOf(log, t)
          /\ RecordType(th) # "INTENT" => IntentsOf(log', t) = IntentsOf(log, t)
          /\ \A o \in Outcomes : HasIn(log, t, o) => HasIn(log', t, o)
      <4>1. CASE log' = log
        <5>1. \A o \in Outcomes : HasIn(log, t, o) => HasIn(log', t, o)
          BY <4>1
        <5>2. QED
          BY <4>1, <5>1
      <4>2. CASE log' = Appended(t, s, RecordType(th))
        BY <1>f, <2>1, <2>2, <3>1, <3>3, <4>2, AppendSets
      <4>3. QED
        BY <2>2, <4>1, <4>2
    <3>5. PrefixOf(t)' /\ OneOpOf(t)'
      <4>1. CASE pc[th] = "intent"
        <5>1. moved'[t] = {} /\ AppliedOf(log', t) = {}
          BY <1>l, <1>w, <1>8, <2>1, <3>4, <4>1 DEF BeforeLoop
        <5>2. QED
          BY <2>1, <5>1 DEF PrefixOf, PrefixIn, OneOpOf, OneOpIn
      <4>2. CASE pc[th] = "log_err"
        <5>1. /\ IntentsOf(log', t) = IntentsOf(log, t)
              /\ AppliedOf(log', t) = AppliedOf(log, t)
              /\ \A o \in Outcomes : HasIn(log, t, o) => HasIn(log', t, o)
          BY <3>4, <4>2 DEF RecordType
        <5>2. PrefixOf(t) /\ OneOpOf(t) /\ moved'[t] = moved[t]
          BY <1>p, <2>1
        <5>3. QED
          BY <2>1, <5>1, <5>2 DEF PrefixOf, PrefixIn, OneOpOf, OneOpIn
      <4>3. QED
        BY <3>1, <4>1, <4>2
    <3>6. QED
      BY <1>8, <1>i, <2>1, <3>1, <3>2, <3>3, <3>5, CreatorStep
  <2>5. QED
    BY <2>3, <2>4
\* A thread that recovers or rolls back creates nothing.
<1>9. ASSUME NEW th \in Threads, Creating(th),
             \/ RecoverNext(th) \/ StartRecover(th)
             \/ \E t \in Tx : StartRollback(th, t)
      PROVE  ApplyInv'
  <2>1. pc[th] \in {"idle", "next"}
    BY <1>9 DEF RecoverNext, StartRecover, StartRollback
  <2>2. QED
    BY <1>9, <1>w, <2>1 DEF Creating
\* After a crash nobody creates anything; the log says what it said, or has a
\* new record that would be lost with its line.
<1>10. ASSUME Crash PROVE ApplyInv'
  <2>1. /\ req' = req /\ reply' = reply /\ moved' = moved
        /\ \A u \in Threads : pc'[u] = "idle"
    BY <1>10 DEF Crash
  <2>2. \A u \in Threads : ~Creating(u)'
    BY <1>w, <2>1 DEF Creating
  <2>3. CreatorInv'
    <3>1. \A t \in Tx : req'[t] = <<>> => moved'[t] = {} /\ reply'[t] # "ok"
      BY <2>1 DEF ApplyInv, CreatorInv
    <3>2. QED
      BY <2>1, <2>2, <3>1 DEF CreatorInv
  <2>4. \A u \in Threads : Local(u)'
    BY <2>2 DEF Local
  <2>5. CASE UNCHANGED <<log, tail>>
    <3>1. \A t \in Tx : PrefixOf(t)' /\ OneOpOf(t)' /\ OkOf(t)'
      BY <1>p, <2>1, <2>5 DEF PrefixOf, PrefixIn, OneOpOf, OneOpIn, OkOf
    <3>2. OpenInv'
      BY <2>1, <2>5 DEF ApplyInv, OpenInv, PrefixIn, OneOpIn, LastLost
    <3>3. QED
      BY <1>t, <2>3, <2>4, <2>5, <3>1, <3>2 DEF ApplyInv
  <2>6. ASSUME TornWrites, NEW th \in Threads, NEW s \in todo[th], Cut(th, s) PROVE ApplyInv'
    <3>1. \A t \in Tx : OkOf(t)'
      BY <2>6 DEF OkOf
    <3>2. CASE tail = "torn" \/ (tail' = "torn" /\ log' = log)
      <4>1. log' = log /\ tail' = "torn"
        BY <2>6, <3>2 DEF Cut, Appended
      <4>2. \A t \in Tx : PrefixOf(t)' /\ OneOpOf(t)'
        BY <1>p, <2>1, <4>1 DEF PrefixOf, PrefixIn, OneOpOf, OneOpIn
      <4>3. QED
        BY <2>3, <2>4, <2>6, <3>1, <4>1, <4>2 DEF ApplyInv, OpenInv
    <3>3. CASE tail = "open"
      <4>1. log' = LastLost /\ tail' = "torn"
        BY <2>6, <3>3 DEF Cut, Appended
      <4>2. ASSUME NEW t \in Tx PROVE PrefixOf(t)' /\ OneOpOf(t)'
        <5>1. PrefixIn(LastLost, t) /\ OneOpIn(LastLost, t)
          BY <3>3 DEF ApplyInv, OpenInv
        <5>2. PrefixOf(t)'
          BY <4>1, <5>1 DEF PrefixOf, PrefixIn
        <5>3. OneOpOf(t)'
          BY <2>1, <4>1, <5>1 DEF OneOpOf, OneOpIn
        <5>4. QED
          BY <5>2, <5>3
      <4>3. QED
        BY <2>3, <2>4, <2>6, <3>1, <4>1, <4>2 DEF ApplyInv, OpenInv
    <3>4. CASE tail = "whole" /\ tail' # "torn"
      <4>1. /\ tail' = "open" /\ log' = Appended(cur[th], s, RecordType(th))
            /\ pc[th] \in {"intent", "log_ok", "log_err"} /\ IsNext(th, s)
        BY <2>6, <3>4 DEF Cut
      <4>r. cur[th] \in Tx /\ RecordType(th) \in Types
        BY <1>f DEF RecordType, Types, Outcomes
      <4>2. QED
        BY <1>i, <2>1, <2>3, <2>4, <2>6, <3>1, <3>4, <4>1, <4>r, OpensTail
    <3>5. QED
      BY <1>f, <2>6, <3>2, <3>3, <3>4 DEF Cut
  <2>7. QED
    BY <1>10, <2>5, <2>6 DEF Crash
<1>11. ASSUME UNCHANGED vars PROVE ApplyInv'
  <2>1. UNCHANGED <<log, tail, req, pc, job, cur, todo, reply, moved>>
    BY <1>11 DEF vars
  <2>2. CreatorInv'
    BY <2>1 DEF ApplyInv, CreatorInv, Creating
  <2>3. \A th \in Threads : Local(th)'
    BY <2>1 DEF ApplyInv, Local, Creating, BeforeLoop, InLoop, Whole, IsNext
  <2>4. \A t \in Tx : PrefixOf(t)' /\ OneOpOf(t)' /\ OkOf(t)'
    BY <1>p, <2>1 DEF PrefixOf, PrefixIn, OneOpOf, OneOpIn, OkOf
  <2>5. (~TornWrites => tail' = "whole") /\ OpenInv'
    BY <1>t, <2>1 DEF ApplyInv, OpenInv, PrefixIn, OneOpIn, LastLost
  <2>6. QED
    BY <2>2, <2>3, <2>4, <2>5 DEF ApplyInv
<1>12. ASSUME NEW th \in Threads, NEW s \in todo[th], Creating(th),
              \/ AppendIntent(th, s) \/ LogFailure(th, s) \/ AppendError(th, s)
       PROVE  ApplyInv'
  <2>1. \/ log' = log /\ tail' = tail /\ AppendError(th, s)
        \/ log' = Appended(cur[th], s, RecordType(th)) /\ tail' = "whole"
    BY <1>12 DEF AppendIntent, LogFailure, AppendError
  <2>2. CASE log' = log /\ tail' = tail /\ AppendError(th, s)
    BY <1>8, <1>12, <2>2
  <2>3. CASE tail = "open" /\ log' = Appended(cur[th], s, RecordType(th)) /\ tail' = "whole"
    BY <1>o, <1>12, <2>3
  <2>4. CASE tail # "open" /\ log' = Appended(cur[th], s, RecordType(th)) /\ tail' = "whole"
    BY <1>3, <1>7, <1>8, <1>12, <2>4
  <2>5. QED
    BY <2>1, <2>2, <2>3, <2>4
<1>13. QED
  BY <1>1, <1>2, <1>4, <1>5, <1>6, <1>9, <1>10, <1>11, <1>12
     DEF Next, Progress, Step

\* ApplyInv holds throughout, with the invariant it rests on.
LEMMA ApplyInvariant == Spec => [](IInv /\ ApplyInv)
<1>1. Init => IInv /\ ApplyInv
  BY InitIInv, InitApplyInv
<1>2. (IInv /\ ApplyInv) /\ [Next]_vars => (IInv /\ ApplyInv)'
  BY NextIInv, NextApplyInv
<1>3. QED
  BY <1>1, <1>2, PTL DEF Spec

\* A record of a type, as the properties and as the proof put it.
LEMMA AppliedLogged ==
  ASSUME log \in Seq(Record), NEW t \in Tx, NEW s
  PROVE  s \in AppliedOf(log, t) <=> Logged(t, s, "APPLIED")
<1>1. \A i \in DOMAIN log : log[i] \in Record
  OBVIOUS
<1>2. \A r \in Record : r = [tx |-> r.tx, seq |-> r.seq, type |-> r.type]
  BY DEF Record
<1>3. QED
  BY <1>1, <1>2 DEF AppliedOf, Logged

\* apply_tx stops at the first failure: for every number of threads that apply,
\* roll back and recover, with crashes, cut lines and failing appends, the
\* operations logged APPLIED are a prefix of those that can be read back.
THEOREM AppliedIsPrefix == Spec => []AppliedPrefix
<1>1. IInv /\ ApplyInv => AppliedPrefix
  <2> SUFFICES ASSUME IInv, ApplyInv, NEW t \in Tx, NEW s \in Intents(t), NEW u \in Intents(t),
                      s < u, Logged(t, u, "APPLIED")
               PROVE  Logged(t, s, "APPLIED")
    BY DEF AppliedPrefix
  <2>1. log \in Seq(Record)
    BY DEF IInv, TypeOK
  <2>2. PrefixOf(t) /\ s \in IntentsOf(log, t) /\ u \in IntentsOf(log, t)
    BY DEF ApplyInv, Intents, IntentsOf
  <2>3. u \in AppliedOf(log, t)
    BY <2>1, AppliedLogged
  <2>4. s \in AppliedOf(log, t)
    BY <2>2, <2>3 DEF PrefixOf, PrefixIn
  <2>5. QED
    BY <2>1, <2>4, AppliedLogged
<1>2. QED
  BY <1>1, ApplyInvariant, PTL

\* What recover relies on: a transaction without an outcome has touched no file
\* but those of its first operation.
THEOREM InFlightTouchedOne == Spec => []InFlightTouchesOneOp
<1>1. ApplyInv => InFlightTouchesOneOp
  <2> SUFFICES ASSUME ApplyInv, NEW t \in Tx, \A o \in Outcomes : ~Has(t, o),
                      NEW s \in moved[t], NEW u \in Intents(t)
               PROVE  s <= u
    BY DEF InFlightTouchesOneOp
  <2>1. OneOpIn(log, t) /\ u \in IntentsOf(log, t)
    BY DEF ApplyInv, OneOpOf, Intents, IntentsOf
  <2>2. \A o \in Outcomes : ~HasIn(log, t, o)
    BY DEF Has, HasIn
  <2>3. QED
    BY <2>1, <2>2 DEF OneOpIn
<1>2. QED
  BY <1>1, ApplyInvariant, PTL

\* Success means applied, for every number of threads, as long as crashes tear
\* no line: a torn INTENT is an operation the client asked for and nobody runs.
THEOREM SuccessMeansApplied ==
  ASSUME TornWrites = FALSE
  PROVE  Spec => []OkMeansApplied
<1>1. IInv /\ ApplyInv => OkMeansApplied
  <2> SUFFICES ASSUME IInv, ApplyInv, NEW t \in Tx, reply[t] = "ok", NEW s \in DOMAIN req[t]
               PROVE  Logged(t, s, "APPLIED")
    BY DEF OkMeansApplied
  <2>1. log \in Seq(Record)
    BY DEF IInv, TypeOK
  <2>2. s \in AppliedOf(log, t)
    BY DEF ApplyInv, OkOf
  <2>3. QED
    BY <2>1, <2>2, AppliedLogged
<1>2. QED
  BY <1>1, ApplyInvariant, PTL

-----------------------------------------------------------------------------
(* Requests served one at a time lose content by one operation only *)

OneAtATime == \A th, u \in Threads : th = u

\* What the existence tests found still holds when the file is moved or made,
\* because nobody else changes files in between.
ReadyTo(step, op) ==
  /\ step = "move" => Exists(op.src) /\ (op.kind # "enable" => ~Exists(op.dst))
  /\ step = "touch" => ~Exists(op.dst)

MoveInv ==
  \A th \in Threads : \A s \in todo[th] : IsNext(th, s) => ReadyTo(pc[th], OpOf(th, s))

\* The existence tests let a file be overwritten in one case only.
LEMMA DecideReady ==
  ASSUME IInv, NEW th \in Threads, NEW s \in todo[th]
  PROVE  ReadyTo(Decide(OpOf(th, s)), OpOf(th, s))
<1> DEFINE op == OpOf(th, s)
<1>1. op.kind \in {"rename", "enable", "disable"}
  BY OpOfType DEF IInv, Op, Kinds
<1>2. CASE op.kind = "rename"
  BY <1>2 DEF Decide, ReadyTo
<1>3. CASE op.kind = "disable"
  BY <1>3 DEF Decide, ReadyTo
<1>4. CASE op.kind = "enable"
  BY <1>4 DEF Decide, ReadyTo
<1>5. QED
  BY <1>1, <1>2, <1>3, <1>4

\* With one thread, a move or a touch finds what its existence tests saw.
LEMMA NextMoveInv ==
  ASSUME OneAtATime
  PROVE  IInv /\ MoveInv /\ [Next]_vars => MoveInv'
<1> SUFFICES ASSUME IInv, MoveInv, [Next]_vars PROVE MoveInv'
  OBVIOUS
<1>f. pc \in [Threads -> PCs] /\ todo \in [Threads -> SUBSET Nat]
  BY DEF IInv, TypeOK
<1> USE DEF sys, thr, cnt, hist
\* A step that ends elsewhere than before a move.
<1>q. ASSUME \A th \in Threads : pc'[th] \notin {"move", "touch"} PROVE MoveInv'
  BY <1>q DEF MoveInv, ReadyTo
<1>1. ASSUME NEW th \in Threads, NEW t \in Tx, Begin(th, t) PROVE MoveInv'
  <2>1. pc'[th] = "intent"
    BY <1>1, <1>f DEF Begin, Goto
  <2>2. QED
    BY <1>q, <2>1 DEF OneAtATime
<1>2. ASSUME NEW th \in Threads, NEW s \in todo[th], Check(th, s) PROVE MoveInv'
  <2>1. /\ fs' = fs /\ req' = req /\ todo' = todo /\ cur' = cur /\ job' = job
        /\ \A u \in Threads : u = th
    BY <1>2 DEF Check, OneAtATime
  <2>2. pc'[th] \in {"log_ok", "log_err", Decide(OpOf(th, s))}
    BY <1>2, <1>f DEF Check, Goto
  <2>3. ReadyTo(pc'[th], OpOf(th, s))
    BY <2>2, DecideReady DEF ReadyTo
  <2>4. \A x \in todo[th] : IsNext(th, x) => x = s
    BY <1>2, <1>f DEF Check, IsNext
  <2>6. \A x \in todo[th] : OpOf(th, x)' = OpOf(th, x) /\ (IsNext(th, x)' <=> IsNext(th, x))
    BY <2>1 DEF OpOf, IsNext
  <2>7. ReadyTo(pc[th], OpOf(th, s))' <=> ReadyTo(pc'[th], OpOf(th, s))
    BY <2>1 DEF ReadyTo, Exists, OpOf
  <2>8. \A x \in todo'[th] : IsNext(th, x)' => ReadyTo(pc[th], OpOf(th, x))'
    BY <2>1, <2>3, <2>4, <2>6, <2>7
  <2>9. QED
    BY <2>1, <2>8 DEF MoveInv
<1>3. ASSUME NEW th \in Threads, NEW s \in todo[th],
             \/ AppendIntent(th, s) \/ Move(th, s) \/ MoveMissing(th, s) \/ Touch(th, s)
             \/ MoveFails(th, s) \/ LogOutcome(th, s) \/ LogFailure(th, s) \/ AppendError(th, s)
      PROVE  MoveInv'
  <2>1. pc'[th] \notin {"move", "touch"}
    BY <1>3, <1>f DEF AppendIntent, Move, MoveMissing, Touch, MoveFails, LogOutcome,
                      LogFailure, AppendError, Finish, Goto
  <2>2. QED
    BY <1>q, <2>1 DEF OneAtATime
<1>4. ASSUME NEW th \in Threads,
             \/ ReadIntents(th) \/ RecoverNext(th) \/ StartRecover(th)
             \/ \E t \in Tx : StartRollback(th, t)
      PROVE  MoveInv'
  <2>1. pc'[th] \notin {"move", "touch"}
    BY <1>4, <1>f DEF ReadIntents, RecoverNext, StartRecover, StartRollback, Finish, Goto
  <2>2. QED
    BY <1>q, <2>1 DEF OneAtATime
<1>5. ASSUME Crash PROVE MoveInv'
  BY <1>5, <1>q DEF Crash
<1>6. ASSUME UNCHANGED vars PROVE MoveInv'
  BY <1>6 DEF vars, MoveInv, ReadyTo, IsNext, Exists, OpOf
<1>7. QED
  BY <1>1, <1>2, <1>3, <1>4, <1>5, <1>6 DEF Next, Progress, Step

\* What a step of one thread at most loses: only a move of an enabling loses
\* content, and it loses what was at its destination.
LEMMA MoveLoses ==
  ASSUME IInv, MoveInv, NEW th \in Threads, NEW s \in todo[th], Move(th, s),
         NEW c \in Content, \E p \in Path : fs[p] = c, \A p \in Path : fs'[p] # c
  PROVE  OpOf(th, s).kind = "enable" /\ fs[OpOf(th, s).dst] = c
<1> DEFINE op == OpOf(th, s)
<1>1. /\ fs \in [Path -> Content \cup {None, Blank}] /\ op.src \in Path /\ op.dst \in Path
      /\ fs' = [fs EXCEPT ![op.dst] = fs[op.src], ![op.src] = None]
      /\ op.kind # "enable" => fs[op.dst] = None
  <2>1. op \in Op
    BY OpOfType DEF IInv
  <2>2. op.kind # "enable" => fs[op.dst] = None
    BY DEF Move, MoveInv, ReadyTo, Exists
  <2>3. QED
    BY <2>1, <2>2 DEF IInv, TypeOK, Move, Op
<1>2. PICK p \in Path : fs[p] = c
  OBVIOUS
<1> HIDE DEF op
<1>3. fs[op.dst] = c
  <2>1. SUFFICES ASSUME p # op.dst PROVE FALSE
    BY <1>2
  <2>2. CASE p = op.src
    <3>1. fs'[op.dst] = c
      BY <1>1, <1>2, <2>1, <2>2
    <3>2. QED
      BY <1>1, <3>1
  <2>3. CASE p # op.src
    <3>1. fs'[p] = c
      BY <1>1, <1>2, <2>1, <2>3
    <3>2. QED
      BY <3>1
  <2>4. QED
    BY <2>2, <2>3
<1>4. op.kind = "enable"
  BY <1>1, <1>3, FsAssumption
<1>5. QED
  BY <1>3, <1>4 DEF op

\* No other step loses any.
LEMMA StepLoses ==
  ASSUME OneAtATime, IInv, MoveInv, [Next]_vars
  PROVE  \A c \in Content : (\E p \in Path : fs[p] = c) /\ (\A p \in Path : fs'[p] # c) =>
           \E th \in Threads : \E s \in todo[th] :
             Move(th, s) /\ OpOf(th, s).kind = "enable" /\ fs[OpOf(th, s).dst] = c
<1> SUFFICES ASSUME NEW c \in Content, \E p \in Path : fs[p] = c, \A p \in Path : fs'[p] # c
             PROVE  \E th \in Threads : \E s \in todo[th] :
                      Move(th, s) /\ OpOf(th, s).kind = "enable" /\ fs[OpOf(th, s).dst] = c
  OBVIOUS
<1> USE DEF sys, thr, cnt, hist
<1>1. fs' # fs
  OBVIOUS
<1>2. ASSUME NEW th \in Threads, NEW s \in todo[th], Touch(th, s) PROVE FALSE
  <2>1. OpOf(th, s).dst \in Path /\ fs \in [Path -> Content \cup {None, Blank}]
    BY OpOfType DEF IInv, TypeOK, Op
  <2>2. fs[OpOf(th, s).dst] = None
    BY <1>2 DEF Touch, MoveInv, ReadyTo, Exists
  <2>3. fs' = [fs EXCEPT ![OpOf(th, s).dst] = Blank]
    BY <1>2, <2>1, <2>2 DEF Touch, Exists
  <2>4. PICK p \in Path : fs[p] = c
    OBVIOUS
  <2>5. p # OpOf(th, s).dst
    BY <2>2, <2>4, FsAssumption
  <2>6. QED
    BY <2>1, <2>3, <2>4, <2>5
<1>3. \E th \in Threads : \E s \in todo[th] : Move(th, s) \/ Touch(th, s)
  <2>1. ASSUME NEW th \in Threads, NEW t \in Tx, Begin(th, t) \/ StartRollback(th, t) PROVE FALSE
    BY <1>1, <2>1 DEF Begin, StartRollback
  <2>2. ASSUME NEW th \in Threads, StartRecover(th) \/ ReadIntents(th) \/ RecoverNext(th) PROVE FALSE
    BY <1>1, <2>2 DEF StartRecover, ReadIntents, RecoverNext
  <2>3. ASSUME NEW th \in Threads, NEW s \in todo[th],
               \/ AppendIntent(th, s) \/ Check(th, s) \/ MoveMissing(th, s) \/ MoveFails(th, s)
               \/ LogOutcome(th, s) \/ LogFailure(th, s) \/ AppendError(th, s)
        PROVE  FALSE
    BY <1>1, <2>3 DEF AppendIntent, Check, MoveMissing, MoveFails, LogOutcome, LogFailure,
                      AppendError
  <2>4. ~Crash /\ ~UNCHANGED vars
    BY <1>1 DEF Crash, vars
  <2>5. QED
    BY <2>1, <2>2, <2>3, <2>4 DEF Next, Progress, Step
<1>4. PICK th \in Threads : \E s \in todo[th] : Move(th, s)
  BY <1>2, <1>3
<1>5. PICK s \in todo[th] : Move(th, s)
  BY <1>4
<1>6. QED
  BY <1>5, MoveLoses

\* Requests served one at a time lose content in one way only, whatever files
\* there are and whatever is posted: the marker is taken off a module, by apply
\* or by rollback, while a file has its unmarked name, and that file is replaced.
THEOREM SerialLoss ==
  ASSUME OneAtATime
  PROVE  Spec => OnlyEnableReplaces
<1>1. Init => IInv /\ MoveInv
  <2>1. Init => MoveInv
    BY DEF Init, MoveInv
  <2>2. QED
    BY <2>1, InitIInv
<1>2. IInv /\ MoveInv /\ [Next]_vars => (IInv /\ MoveInv)'
  BY NextIInv, NextMoveInv
<1>3. IInv /\ MoveInv /\ [Next]_vars =>
        [\A c \in Content : (\E p \in Path : fs[p] = c) /\ (\A p \in Path : fs'[p] # c) =>
           \E th \in Threads : \E s \in todo[th] :
             /\ Move(th, s)
             /\ OpOf(th, s).kind = "enable" /\ fs[OpOf(th, s).dst] = c]_vars
  BY StepLoses
<1>4. QED
  BY <1>1, <1>2, <1>3, PTL DEF Spec, OnlyEnableReplaces

-----------------------------------------------------------------------------
(* Requests served one at a time roll back once *)

\* A rollback visits what is not logged as rolled back, but for the operation
\* whose record was written by an append that raised; and a recovery has still
\* to visit transactions without such a record.
UndoLocal(th) ==
  /\ pc[th] \in {"intent", "read"} => job[th] = "create"
  /\ pc[th] = "next" => job[th] = "recover"
  /\ pc[th] \in Working \ {"log_err"} /\ job[th] # "create" =>
       \A s \in todo[th] : ~Logged(cur[th], s, "ROLLED_BACK")
  /\ pc[th] = "next" => \A t \in pending[th] : ~Has(t, "ROLLED_BACK")
  /\ pc[th] \in Working /\ job[th] = "recover" =>
       cur[th] \notin pending[th] /\ \A t \in pending[th] : ~Has(t, "ROLLED_BACK")

UndoInv == RollbackOnce /\ \A th \in Threads : UndoLocal(th)

\* What an append does to the log.
LEMMA AppendedAs ==
  ASSUME log \in Seq(Record), NEW t \in Tx, NEW s \in Nat, NEW ty \in Types,
         log' = Appended(t, s, ty), tail \in {"whole", "open", "torn"},
         tail = "open" => Len(log) > 0
  PROVE  \/ /\ DOMAIN log' = DOMAIN log
            /\ \A i \in DOMAIN log : log'[i] = log[i] \/ log'[i].type \in Lost
         \/ /\ DOMAIN log' = DOMAIN log \cup {Len(log) + 1}
            /\ log'[Len(log) + 1] = [tx |-> t, seq |-> s, type |-> ty]
            /\ \A i \in DOMAIN log : log'[i] = log[i]
<1>1. [tx |-> t, seq |-> s, type |-> ty] \in Record
  BY DEF Record, Types
<1>2. CASE tail = "torn"
  BY <1>2 DEF Appended
<1>3. CASE tail = "whole"
  BY <1>1, <1>3 DEF Appended
<1>4. CASE tail = "open"
  <2>1. log' = LostOf(log)
    BY <1>4 DEF Appended, LastLost, LostOf
  <2>2. QED
    BY <1>4, <2>1, LostLast
<1>5. QED
  BY <1>2, <1>3, <1>4

\* It adds at most its own record.
LEMMA AppendAdds ==
  ASSUME log \in Seq(Record), NEW t \in Tx, NEW s \in Nat, NEW ty \in Types,
         log' = Appended(t, s, ty), tail \in {"whole", "open", "torn"},
         tail = "open" => Len(log) > 0,
         NEW u, NEW i \in DOMAIN log',
         log'[i].tx = u, log'[i].type = "ROLLED_BACK"
  PROVE  \/ i \in DOMAIN log /\ log'[i] = log[i]
         \/ u = t /\ log'[i].seq = s /\ ty = "ROLLED_BACK"
<1>1. CASE /\ DOMAIN log' = DOMAIN log
           /\ \A k \in DOMAIN log : log'[k] = log[k] \/ log'[k].type \in Lost
  BY <1>1 DEF Lost
<1>2. CASE /\ DOMAIN log' = DOMAIN log \cup {Len(log) + 1}
           /\ log'[Len(log) + 1] = [tx |-> t, seq |-> s, type |-> ty]
           /\ \A k \in DOMAIN log : log'[k] = log[k]
  <2>1. CASE i \in DOMAIN log
    BY <1>2, <2>1
  <2>2. CASE i = Len(log) + 1
    BY <1>2, <2>2
  <2>3. QED
    BY <1>2, <2>1, <2>2
<1>3. QED
  BY <1>1, <1>2, AppendedAs

\* It repeats no record that was not there.
LEMMA AppendOnce ==
  ASSUME log \in Seq(Record), NEW t \in Tx, NEW s \in Nat, NEW ty \in Types,
         log' = Appended(t, s, ty), tail \in {"whole", "open", "torn"},
         tail = "open" => Len(log) > 0,
         RollbackOnce, ty = "ROLLED_BACK" => ~Logged(t, s, "ROLLED_BACK")
  PROVE  RollbackOnce'
<1> SUFFICES ASSUME NEW i \in DOMAIN log', NEW j \in DOMAIN log',
                    log'[i].type = "ROLLED_BACK", log'[i] = log'[j], i # j
             PROVE  FALSE
  BY DEF RollbackOnce
<1>1. CASE /\ DOMAIN log' = DOMAIN log
           /\ \A k \in DOMAIN log : log'[k] = log[k] \/ log'[k].type \in Lost
  <2>1. log'[i] = log[i] /\ log'[j] = log[j]
    BY <1>1 DEF Lost
  <2>2. QED
    BY <1>1, <2>1 DEF RollbackOnce
<1>2. CASE /\ DOMAIN log' = DOMAIN log \cup {Len(log) + 1}
           /\ log'[Len(log) + 1] = [tx |-> t, seq |-> s, type |-> ty]
           /\ \A k \in DOMAIN log : log'[k] = log[k]
  <2>1. ty = "ROLLED_BACK" => \A k \in DOMAIN log : log[k] # log'[Len(log) + 1]
    BY <1>2 DEF Logged
  <2>2. CASE i \in DOMAIN log /\ j \in DOMAIN log
    BY <1>2, <2>2 DEF RollbackOnce
  <2>3. CASE i = Len(log) + 1 \/ j = Len(log) + 1
    BY <1>2, <2>1, <2>3
  <2>4. QED
    BY <1>2, <2>2, <2>3
<1>3. QED
  BY <1>1, <1>2, AppendedAs

\* A transaction with such a record is rolled back, to rollback and to recover.
LEMMA RolledBackState ==
  \A t : Has(t, "ROLLED_BACK") => TxState(t) = "rolled_back" /\ t \notin InFlight
<1>1. \A t : Has(t, "ROLLED_BACK") => TxState(t) = "rolled_back"
  BY DEF TxState, Outcomes
<1>2. QED
  BY <1>1 DEF InFlight

\* A record of a transaction is one that it has.
LEMMA LoggedHas == \A t, s : Logged(t, s, "ROLLED_BACK") => Has(t, "ROLLED_BACK")
BY DEF Logged, Has

\* Nothing is logged at first, and no thread runs.
LEMMA InitUndo == Init => UndoInv
BY DEF Init, UndoInv, UndoLocal, RollbackOnce, Working

\* Each step of the one thread keeps what is undone undone once.
LEMMA NextUndo ==
  ASSUME OneAtATime
  PROVE  IInv /\ UndoInv /\ [Next]_vars => UndoInv'
<1> SUFFICES ASSUME IInv, UndoInv, [Next]_vars PROVE UndoInv'
  OBVIOUS
<1>f. /\ pc \in [Threads -> PCs] /\ todo \in [Threads -> SUBSET Nat]
      /\ cur \in [Threads -> Tx] /\ job \in [Threads -> Jobs]
      /\ pending \in [Threads -> SUBSET Tx] /\ log \in Seq(Record)
      /\ tail \in {"whole", "open", "torn"}
      /\ tail = "open" => Len(log) > 0
  BY DEF IInv, TypeOK, TailInv
<1> USE DEF sys, thr, cnt, hist
\* A step of th that appends nothing.
<1>q. ASSUME NEW th \in Threads, log' = log, UndoLocal(th)' PROVE UndoInv'
  BY <1>q DEF UndoInv, RollbackOnce, OneAtATime
<1>1. ASSUME NEW th \in Threads, NEW t \in Tx, Begin(th, t) PROVE UndoInv'
  <2>1. pc'[th] = "intent" /\ job'[th] = "create" /\ log' = log
    BY <1>1, <1>f DEF Begin, Goto
  <2>2. UndoLocal(th)'
    BY <2>1 DEF UndoLocal, Working
  <2>3. QED
    BY <1>q, <2>1, <2>2
<1>2. ASSUME NEW th \in Threads, NEW t \in Tx, StartRollback(th, t) PROVE UndoInv'
  <2>1. /\ pc'[th] = "check" /\ job'[th] = "rollback" /\ cur'[th] = t /\ log' = log
    BY <1>2, <1>f DEF StartRollback, Goto
  <2>2. ~Has(t, "ROLLED_BACK")
    BY <1>2, RolledBackState DEF StartRollback
  <2>3. \A s : ~Logged(t, s, "ROLLED_BACK")'
    BY <2>1, <2>2, LoggedHas DEF Logged
  <2>4. UndoLocal(th)'
    BY <2>1, <2>3 DEF UndoLocal, Working
  <2>5. QED
    BY <1>q, <2>1, <2>4
<1>3. ASSUME NEW th \in Threads, StartRecover(th) PROVE UndoInv'
  <2>1. /\ pc'[th] = "next" /\ job'[th] = "recover" /\ pending'[th] = InFlight /\ log' = log
    BY <1>3, <1>f DEF StartRecover, Goto, InFlight
  <2>2. \A t \in pending'[th] : ~Has(t, "ROLLED_BACK")'
    BY <2>1, RolledBackState DEF Has
  <2>3. UndoLocal(th)'
    BY <2>1, <2>2 DEF UndoLocal, Working
  <2>4. QED
    BY <1>q, <2>1, <2>3
<1>4. ASSUME NEW th \in Threads, RecoverNext(th) PROVE UndoInv'
  <2>1. pc[th] = "next" /\ job'[th] = "recover" /\ log' = log
    BY <1>4, <1>f DEF RecoverNext, UndoInv, UndoLocal
  <2>2. \A t \in pending[th] : ~Has(t, "ROLLED_BACK")' /\ \A s : ~Logged(t, s, "ROLLED_BACK")'
    BY <2>1, LoggedHas DEF UndoInv, UndoLocal, Has, Logged
  <2>3. CASE pc'[th] = "idle"
    BY <1>q, <2>1, <2>3 DEF UndoLocal, Working
  <2>4. CASE pc'[th] # "idle"
    <3>1. PICK t \in pending[th] :
            /\ pending' = [pending EXCEPT ![th] = @ \ {t}]
            /\ cur' = [cur EXCEPT ![th] = t]
            /\ Goto(th, "check")
      BY <1>4, <1>f, <2>4 DEF RecoverNext, Goto
    <3>2. pc'[th] = "check" /\ cur'[th] = t /\ pending'[th] = pending[th] \ {t}
      BY <1>f, <3>1 DEF Goto
    <3>3. UndoLocal(th)'
      BY <2>1, <2>2, <3>2 DEF UndoLocal, Working
    <3>4. QED
      BY <1>q, <2>1, <3>3
  <2>5. QED
    BY <2>3, <2>4
<1>5. ASSUME NEW th \in Threads, ReadIntents(th) PROVE UndoInv'
  <2>1. pc[th] = "read" /\ job'[th] = "create" /\ log' = log
    BY <1>5, <1>f DEF ReadIntents, UndoInv, UndoLocal
  <2>2. pc'[th] \in {"idle", "check"}
    BY <1>5, <1>f, <2>1 DEF ReadIntents, Finish, Goto
  <2>3. UndoLocal(th)'
    BY <2>1, <2>2 DEF UndoLocal, Working
  <2>4. QED
    BY <1>q, <2>1, <2>3
<1>6. ASSUME NEW th \in Threads, NEW s \in todo[th],
             \/ Check(th, s) \/ Move(th, s) \/ MoveMissing(th, s) \/ Touch(th, s)
             \/ MoveFails(th, s)
      PROVE  UndoInv'
  <2>1. /\ pc[th] \in Working \ {"log_err"} /\ log' = log
        /\ UNCHANGED <<job, cur, todo, pending>>
    BY <1>6 DEF Check, Move, MoveMissing, Touch, MoveFails, Working
  <2>2. pc'[th] \in Working
    <3>1. Decide(OpOf(th, s)) \in {"move", "noop", "touch", "fail"}
      <4>1. OpOf(th, s).kind \in Kinds
        BY OpOfType DEF IInv, Op
      <4>2. QED
        BY <4>1 DEF Decide, Kinds
    <3>2. ASSUME Check(th, s) PROVE pc'[th] \in Working
      BY <1>f, <3>1, <3>2 DEF Check, Goto, Working
    <3>3. ASSUME Move(th, s) \/ MoveMissing(th, s) \/ Touch(th, s) \/ MoveFails(th, s)
          PROVE  pc'[th] \in Working
      BY <1>f, <3>3 DEF Move, MoveMissing, Touch, MoveFails, Goto, Working
    <3>4. QED
      BY <1>6, <3>2, <3>3
  <2>3. UndoLocal(th)
    BY DEF UndoInv
  <2>4. UndoLocal(th)'
    BY <2>1, <2>2, <2>3 DEF UndoLocal, Working, Logged, Has
  <2>5. QED
    BY <1>q, <2>1, <2>4
<1>7. ASSUME NEW th \in Threads, NEW s \in todo[th], NEW ty \in Types,
             log' = Appended(cur[th], s, ty), cur' = cur,
             ty = "ROLLED_BACK" => pc[th] = "log_ok" /\ job[th] # "create"
      PROVE  /\ RollbackOnce'
             /\ \A x : Logged(cur[th], x, "ROLLED_BACK")'
                         => Logged(cur[th], x, "ROLLED_BACK") \/ (x = s /\ pc[th] = "log_ok")
             /\ \A t : t # cur[th] /\ ~Has(t, "ROLLED_BACK") => ~Has(t, "ROLLED_BACK")'
  <2>1. cur[th] \in Tx /\ s \in Nat
    BY <1>f
  <2>2. ty = "ROLLED_BACK" => ~Logged(cur[th], s, "ROLLED_BACK")
    BY <1>7 DEF UndoInv, UndoLocal, Working
  <2>3. RollbackOnce'
    BY <1>7, <1>f, <2>1, <2>2, AppendOnce DEF UndoInv
  <2>4. ASSUME NEW x, Logged(cur[th], x, "ROLLED_BACK")'
        PROVE  Logged(cur[th], x, "ROLLED_BACK") \/ (x = s /\ pc[th] = "log_ok")
    <3>1. PICK i \in DOMAIN log' :
            log'[i] = [tx |-> cur'[th], seq |-> x, type |-> "ROLLED_BACK"]
      BY <2>4 DEF Logged
    <3>2. /\ log'[i].tx = cur[th] /\ log'[i].seq = x /\ log'[i].type = "ROLLED_BACK"
          /\ log'[i] = [tx |-> cur[th], seq |-> x, type |-> "ROLLED_BACK"]
      BY <1>7, <3>1
    <3>3. \/ i \in DOMAIN log /\ log'[i] = log[i]
          \/ x = s /\ ty = "ROLLED_BACK"
      BY <1>7, <1>f, <2>1, <3>2, AppendAdds
    <3>4. CASE i \in DOMAIN log /\ log'[i] = log[i]
      BY <3>2, <3>4 DEF Logged
    <3>5. CASE x = s /\ ty = "ROLLED_BACK"
      BY <1>7, <3>5
    <3>6. QED
      BY <3>3, <3>4, <3>5
  <2>5. ASSUME NEW t, t # cur[th], Has(t, "ROLLED_BACK")' PROVE Has(t, "ROLLED_BACK")
    <3>1. PICK i \in DOMAIN log' : log'[i].tx = t /\ log'[i].type = "ROLLED_BACK"
      BY <2>5 DEF Has
    <3>2. i \in DOMAIN log /\ log'[i] = log[i]
      BY <1>7, <1>f, <2>1, <2>5, <3>1, AppendAdds
    <3>3. QED
      BY <3>1, <3>2 DEF Has
  <2>6. QED
    BY <2>3, <2>4, <2>5
<1>8. ASSUME NEW th \in Threads, NEW s \in todo[th],
             AppendIntent(th, s) \/ LogOutcome(th, s) \/ LogFailure(th, s)
      PROVE  UndoInv'
  <2>1. /\ log' = Appended(cur[th], s, RecordType(th))
        /\ UNCHANGED <<job, cur, pending>>
    BY <1>8 DEF AppendIntent, LogOutcome, LogFailure
  <2>2. /\ RecordType(th) \in Types
        /\ RecordType(th) = "ROLLED_BACK" => pc[th] = "log_ok" /\ job[th] # "create"
    BY <1>8 DEF AppendIntent, LogOutcome, LogFailure, RecordType, Types, Outcomes
  <2>3. /\ RollbackOnce'
        /\ \A x : Logged(cur[th], x, "ROLLED_BACK")'
                    => Logged(cur[th], x, "ROLLED_BACK") \/ (x = s /\ pc[th] = "log_ok")
        /\ \A t : t # cur[th] /\ ~Has(t, "ROLLED_BACK") => ~Has(t, "ROLLED_BACK")'
    BY <1>7, <2>1, <2>2
  <2>4. UndoLocal(th)
    BY DEF UndoInv
  <2>5. CASE AppendIntent(th, s)
    <3>1. pc[th] = "intent" /\ pc'[th] \in {"intent", "read"} /\ job'[th] = "create"
      BY <1>f, <2>1, <2>4, <2>5 DEF AppendIntent, Goto, UndoLocal
    <3>2. UndoLocal(th)'
      BY <3>1 DEF UndoLocal, Working
    <3>3. QED
      BY <2>3, <3>2 DEF UndoInv, OneAtATime
  <2>6. CASE LogOutcome(th, s) /\ todo[th] # {s}
    <3>1. pc[th] = "log_ok" /\ pc'[th] = "check" /\ todo'[th] = todo[th] \ {s}
      BY <1>f, <2>6 DEF LogOutcome, Goto
    <3>2. UndoLocal(th)'
      BY <2>1, <2>3, <2>4, <3>1 DEF UndoLocal, Working
    <3>3. QED
      BY <2>3, <3>2 DEF UndoInv, OneAtATime
  <2>7. CASE LogFailure(th, s) \/ (LogOutcome(th, s) /\ todo[th] = {s})
    <3>1. /\ pc[th] \in {"log_ok", "log_err"}
          /\ pc'[th] = IF job[th] = "recover" THEN "next" ELSE "idle"
      BY <1>f, <2>7 DEF LogFailure, LogOutcome, Finish, Goto
    <3>2. UndoLocal(th)'
      BY <2>1, <2>3, <2>4, <3>1 DEF UndoLocal, Working
    <3>3. QED
      BY <2>3, <3>2 DEF UndoInv, OneAtATime
  <2>8. QED
    BY <1>8, <2>5, <2>6, <2>7
<1>9. ASSUME NEW th \in Threads, NEW s \in todo[th], AppendError(th, s) PROVE UndoInv'
  <2>1. /\ pc[th] \in {"log_ok", "log_err", "intent"} /\ UNCHANGED <<job, cur, pending>>
        /\ log' = log \/ log' = Appended(cur[th], s, RecordType(th))
    BY <1>9 DEF AppendError
  <2>2. /\ RecordType(th) \in Types
        /\ RecordType(th) = "ROLLED_BACK" => pc[th] = "log_ok" /\ job[th] # "create"
    BY <2>1 DEF RecordType, Types, Outcomes
  <2>3. /\ RollbackOnce'
        /\ \A t : t # cur[th] /\ ~Has(t, "ROLLED_BACK") => ~Has(t, "ROLLED_BACK")'
    <3>1. CASE log' = log
      BY <3>1 DEF UndoInv, RollbackOnce, Has
    <3>2. QED
      BY <1>7, <2>1, <2>2, <3>1
  <2>4. UndoLocal(th)
    BY DEF UndoInv
  <2>5. \/ pc[th] = "log_ok" /\ pc'[th] = "log_err"
        \/ /\ pc[th] \in {"intent", "log_err"}
           /\ pc'[th] = IF job[th] = "recover" THEN "next" ELSE "idle"
    BY <1>9, <1>f DEF AppendError, Finish, Goto
  <2>6. UndoLocal(th)'
    BY <2>1, <2>3, <2>4, <2>5 DEF UndoLocal, Working
  <2>7. QED
    BY <2>3, <2>6 DEF UndoInv, OneAtATime
<1>10. ASSUME Crash PROVE UndoInv'
  <2>1. cur' = cur /\ \A th \in Threads : pc'[th] = "idle"
    BY <1>10 DEF Crash
  <2>2. \A th \in Threads : UndoLocal(th)'
    BY <2>1 DEF UndoLocal, Working
  <2>3. CASE log' = log
    BY <2>2, <2>3 DEF UndoInv, RollbackOnce
  <2>4. ASSUME NEW th \in Threads, NEW s \in todo[th], Cut(th, s), log' # log PROVE UndoInv'
    <3>1. log' = Appended(cur[th], s, RecordType(th)) /\ pc[th] \in {"intent", "log_ok", "log_err"}
      BY <2>4 DEF Cut
    <3>2. /\ RecordType(th) \in Types
          /\ RecordType(th) = "ROLLED_BACK" => pc[th] = "log_ok" /\ job[th] # "create"
      BY <3>1 DEF RecordType, Types, Outcomes
    <3>3. RollbackOnce'
      BY <1>7, <2>1, <3>1, <3>2
    <3>4. QED
      BY <2>2, <3>3 DEF UndoInv
  <2>5. QED
    BY <1>10, <2>3, <2>4 DEF Crash
<1>11. ASSUME UNCHANGED vars PROVE UndoInv'
  BY <1>11 DEF vars, UndoInv, UndoLocal, RollbackOnce, Logged, Has
<1>12. QED
  BY <1>1, <1>2, <1>3, <1>4, <1>5, <1>6, <1>8, <1>9, <1>10, <1>11 DEF Next, Progress, Step

\* With requests one at a time _rollback_tx undoes an operation once, however
\* often rollback and recovery are called, and wherever crashes, torn lines and
\* failing appends cut them.
THEOREM UndoneOnce ==
  ASSUME OneAtATime
  PROVE  Spec => []RollbackOnce
<1>1. Init => IInv /\ UndoInv
  BY InitIInv, InitUndo
<1>2. IInv /\ UndoInv /\ [Next]_vars => (IInv /\ UndoInv)'
  BY NextIInv, NextUndo
<1>3. UndoInv => RollbackOnce
  BY DEF UndoInv
<1>4. QED
  BY <1>1, <1>2, <1>3, PTL DEF Spec

-----------------------------------------------------------------------------
(* Without cut lines no record is lost *)

WholeLog == tail = "whole" /\ \A i \in DOMAIN log : log[i].type \in Types

LEMMA WholeKnown == WholeLog => \A t \in Tx : KnownOf(log, t) = IntentsOf(log, t)
BY DEF WholeLog, KnownOf, IntentsOf, IntentTypes, Types, Outcomes

LEMMA InitWhole == Init => WholeLog
BY DEF Init, WholeLog

LEMMA NextWhole ==
  ASSUME ~TornWrites
  PROVE  IInv /\ WholeLog /\ [Next]_vars => WholeLog'
<1> SUFFICES ASSUME IInv, WholeLog, [Next]_vars PROVE WholeLog'
  OBVIOUS
<1>f. log \in Seq(Record) /\ cur \in [Threads -> Tx] /\ todo \in [Threads -> SUBSET Nat]
  BY DEF IInv, TypeOK
<1> USE DEF sys
<1>1. CASE UNCHANGED <<log, tail>>
  BY <1>1 DEF WholeLog
<1>2. ASSUME NEW th \in Threads, NEW s \in todo[th],
             log' = Appended(cur[th], s, RecordType(th)), tail' = "whole",
             RecordType(th) \in Types
      PROVE  WholeLog'
  <2> DEFINE rec == [tx |-> cur[th], seq |-> s, type |-> RecordType(th)]
  <2>s. cur[th] \in Tx /\ s \in Nat
    BY <1>f
  <2>1. rec \in Record /\ rec.type \in Types
    BY <1>2, <2>s DEF Record, Types
  <2>2. log' = Append(log, rec)
    BY <1>2 DEF Appended, WholeLog
  <2> HIDE DEF rec
  <2>3. /\ DOMAIN log' = DOMAIN log \cup {Len(log) + 1}
        /\ log'[Len(log) + 1] = rec
        /\ \A i \in DOMAIN log : log'[i] = log[i]
    BY <1>f, <2>1, <2>2
  <2>4. QED
    BY <1>2, <2>1, <2>3 DEF WholeLog
<1>3. \A th \in Threads : RecordType(th) \in Types
  BY DEF RecordType, Types, Outcomes
<1>4. ASSUME NEW th \in Threads, NEW s \in todo[th],
             \/ AppendIntent(th, s) \/ LogOutcome(th, s) \/ LogFailure(th, s)
             \/ AppendError(th, s)
      PROVE  WholeLog'
  BY <1>1, <1>2, <1>3, <1>4 DEF AppendIntent, LogOutcome, LogFailure, AppendError
<1>5. CASE Crash
  BY <1>1, <1>5 DEF Crash
<1>6. CASE UNCHANGED vars
  BY <1>1, <1>6 DEF vars
<1>7. ASSUME NEW th \in Threads,
             \/ \E t \in Tx : Begin(th, t) \/ StartRollback(th, t)
             \/ StartRecover(th) \/ ReadIntents(th) \/ RecoverNext(th)
             \/ \E s \in todo[th] : \/ Check(th, s) \/ Move(th, s) \/ MoveMissing(th, s)
                                    \/ Touch(th, s) \/ MoveFails(th, s)
      PROVE  WholeLog'
  BY <1>1, <1>7 DEF Begin, StartRollback, StartRecover, ReadIntents, RecoverNext, Check, Move,
                    MoveMissing, Touch, MoveFails
<1>8. QED
  BY <1>4, <1>5, <1>6, <1>7 DEF Next, Progress, Step

-----------------------------------------------------------------------------
(* Requests served one at a time undo from the end *)

\* What a rollback has still to visit is all that is not logged as rolled back;
\* a transaction that is being created has nothing logged as rolled back.
DownLocal(th) ==
  /\ pc[th] \in Working /\ job[th] # "create" =>
       \A u \in Intents(cur[th]) : u \in todo[th] \/ Logged(cur[th], u, "ROLLED_BACK")
  /\ Creating(th) => ~Has(cur[th], "ROLLED_BACK")

DownInv == UndoneFromEnd /\ \A th \in Threads : DownLocal(th)

\* An append to a whole log adds its record and nothing else.
LEMMA WholeAppend ==
  ASSUME log \in Seq(Record), tail = "whole", NEW t \in Tx, NEW s \in Nat, NEW ty \in Types,
         log' = Appended(t, s, ty)
  PROVE  /\ \A u \in Tx : u # t \/ ty # "INTENT" => Intents(u)' = Intents(u)
         /\ \A u \in Tx : u # t => (Has(u, "ROLLED_BACK")' <=> Has(u, "ROLLED_BACK"))
         /\ ty # "ROLLED_BACK" => (Has(t, "ROLLED_BACK")' <=> Has(t, "ROLLED_BACK"))
         /\ \A u \in Tx : \A x : Logged(u, x, "ROLLED_BACK")' <=>
              Logged(u, x, "ROLLED_BACK") \/ (u = t /\ x = s /\ ty = "ROLLED_BACK")
<1> DEFINE rec == [tx |-> t, seq |-> s, type |-> ty]
<1>1. /\ DOMAIN log' = DOMAIN log \cup {Len(log) + 1}
      /\ log'[Len(log) + 1] = rec
      /\ \A i \in DOMAIN log : log'[i] = log[i]
  <2>1. rec \in Record
    BY DEF Record, Types
  <2>2. log' = Append(log, rec)
    BY DEF Appended
  <2> HIDE DEF rec
  <2>3. QED
    BY <2>1, <2>2
<1>2. rec.tx = t /\ rec.seq = s /\ rec.type = ty
  OBVIOUS
<1>3. ASSUME NEW u, NEW x PROVE rec = [tx |-> u, seq |-> x, type |-> "ROLLED_BACK"]
                                  <=> u = t /\ x = s /\ ty = "ROLLED_BACK"
  OBVIOUS
<1> HIDE DEF rec
<1>4. ASSUME NEW u \in Tx, u # t \/ ty # "INTENT" PROVE Intents(u)' = Intents(u)
  BY <1>1, <1>2, <1>4 DEF Intents
<1>5. ASSUME NEW u \in Tx, u # t \/ ty # "ROLLED_BACK"
      PROVE  Has(u, "ROLLED_BACK")' <=> Has(u, "ROLLED_BACK")
  BY <1>1, <1>2, <1>5 DEF Has
<1>6. ASSUME NEW u \in Tx, NEW x
      PROVE  Logged(u, x, "ROLLED_BACK")' <=>
               Logged(u, x, "ROLLED_BACK") \/ (u = t /\ x = s /\ ty = "ROLLED_BACK")
  BY <1>1, <1>3 DEF Logged
<1>7. QED
  BY <1>4, <1>5, <1>6

\* A step of the one thread that appends nothing keeps what it knows of its place.
LEMMA DownQuiet ==
  ASSUME OneAtATime, DownInv, NEW th \in Threads, log' = log, DownLocal(th)'
  PROVE  DownInv'
BY DEF DownInv, UndoneFromEnd, Intents, Logged, OneAtATime

LEMMA InitDown == Init => DownInv
BY DEF Init, DownInv, DownLocal, UndoneFromEnd, Intents, Working, Creating

LEMMA NextDown ==
  ASSUME OneAtATime, ~TornWrites
  PROVE  IInv /\ UndoInv /\ ApplyInv /\ WholeLog /\ DownInv /\ [Next]_vars => DownInv'
<1> SUFFICES ASSUME IInv, UndoInv, ApplyInv, WholeLog, DownInv, [Next]_vars PROVE DownInv'
  OBVIOUS
<1>f. /\ pc \in [Threads -> PCs] /\ todo \in [Threads -> SUBSET Nat]
      /\ cur \in [Threads -> Tx] /\ job \in [Threads -> Jobs]
      /\ pending \in [Threads -> SUBSET Tx] /\ log \in Seq(Record) /\ tail = "whole"
  BY DEF IInv, TypeOK, WholeLog
<1>d. \A th \in Threads : DownLocal(th) /\ UndoLocal(th)
  BY DEF DownInv, UndoInv
<1>l. log' = log => \A t : /\ Intents(t)' = Intents(t)
                           /\ Has(t, "ROLLED_BACK")' <=> Has(t, "ROLLED_BACK")
                           /\ \A x : Logged(t, x, "ROLLED_BACK")' <=> Logged(t, x, "ROLLED_BACK")
  BY DEF Intents, Has, Logged
<1> USE DEF sys, thr, cnt, hist
<1>1. ASSUME NEW th \in Threads, NEW t \in Tx, Begin(th, t) PROVE DownInv'
  <2>1. pc'[th] = "intent" /\ cur'[th] = t /\ log' = log /\ req[t] = <<>>
    BY <1>1, <1>f DEF Begin, Goto
  <2>2. ~Has(t, "ROLLED_BACK")
    <3> SUFFICES ASSUME NEW i \in DOMAIN log, log[i].tx = t, log[i].type = "ROLLED_BACK"
                 PROVE  FALSE
      BY DEF Has
    <3>1. PICK j \in 1 .. (i - 1) : log[j].tx = t /\ log[j].type \in IntentTypes
      BY DEF IInv, IntentBeforeOutcome, Outcomes, IntentTypes
    <3>2. j \in DOMAIN log
      BY <1>f, <3>1
    <3>3. QED
      BY <2>1, <3>1, <3>2 DEF IInv, RequestInv
  <2>3. ~Has(t, "ROLLED_BACK")'
    BY <1>l, <2>1, <2>2
  <2>4. DownLocal(th)'
    BY <2>1, <2>3 DEF DownLocal, Working
  <2>5. QED
    BY <2>1, <2>4, DownQuiet
<1>2. ASSUME NEW th \in Threads, NEW t \in Tx, log' = log, cur'[th] = t, job'[th] # "create",
             todo'[th] = Intents(t)
      PROVE  DownInv'
  <2>1. DownLocal(th)'
    BY <1>2, <1>l DEF DownLocal, Creating
  <2>2. QED
    BY <1>2, <2>1, DownQuiet
<1>3. ASSUME NEW th \in Threads, log' = log, pc'[th] \in {"idle", "next"} PROVE DownInv'
  <2>1. DownLocal(th)'
    BY <1>3 DEF DownLocal, Creating, Working
  <2>2. QED
    BY <1>3, <2>1, DownQuiet
<1>4. ASSUME NEW th \in Threads, log' = log, job' = job, cur' = cur, job[th] = "create",
             Creating(th)
      PROVE  DownInv'
  <2>1. ~Has(cur[th], "ROLLED_BACK")
    BY <1>4, <1>d DEF DownLocal
  <2>2. DownLocal(th)'
    BY <1>4, <1>l, <2>1 DEF DownLocal
  <2>3. QED
    BY <1>4, <2>2, DownQuiet
<1>5. ASSUME NEW th \in Threads, log' = log, job' = job, cur' = cur, todo' = todo,
             pc[th] \in Working
      PROVE  DownInv'
  <2>1. CASE job[th] = "create"
    BY <1>4, <1>5, <2>1 DEF Creating
  <2>2. CASE job[th] # "create"
    <3>1. DownLocal(th)'
      BY <1>5, <1>d, <1>l, <2>2 DEF DownLocal, Creating
    <3>2. QED
      BY <1>5, <3>1, DownQuiet
  <2>3. QED
    BY <2>1, <2>2
<1>6. ASSUME NEW th \in Threads,
             \/ \E t \in Tx : StartRollback(th, t)
             \/ StartRecover(th) \/ RecoverNext(th) \/ ReadIntents(th)
      PROVE  DownInv'
  <2>1. ASSUME NEW t \in Tx, StartRollback(th, t) PROVE DownInv'
    <3>1. log' = log /\ cur'[th] = t /\ job'[th] # "create" /\ todo'[th] = Intents(t)
      BY <1>f, <2>1 DEF StartRollback
    <3>2. QED
      BY <1>2, <3>1
  <2>2. CASE StartRecover(th)
    <3>1. log' = log /\ pc'[th] = "next"
      BY <1>f, <2>2 DEF StartRecover, Goto
    <3>2. QED
      BY <1>3, <3>1
  <2>3. CASE RecoverNext(th)
    <3>1. log' = log /\ job' = job /\ pc[th] = "next"
      BY <2>3 DEF RecoverNext
    <3>2. job[th] # "create"
      BY <1>d, <3>1 DEF UndoLocal
    <3>3. CASE pc'[th] = "idle"
      BY <1>3, <3>1, <3>3
    <3>4. CASE pc'[th] # "idle"
      <4>1. PICK t \in pending[th] : cur'[th] = t /\ todo'[th] = Intents(t)
        BY <1>f, <2>3, <3>4 DEF RecoverNext, Goto
      <4>2. t \in Tx
        BY <1>f
      <4>3. QED
        BY <1>2, <3>1, <3>2, <4>1, <4>2
    <3>5. QED
      BY <3>3, <3>4
  <2>4. CASE ReadIntents(th)
    <3>1. log' = log /\ job' = job /\ cur' = cur /\ pc[th] = "read"
      BY <2>4 DEF ReadIntents
    <3>2. job[th] = "create" /\ Creating(th)
      BY <1>d, <3>1 DEF UndoLocal, Creating
    <3>3. QED
      BY <1>4, <3>1, <3>2
  <2>5. QED
    BY <1>6, <2>1, <2>2, <2>3, <2>4
<1>7. ASSUME NEW th \in Threads, NEW s \in todo[th],
             \/ Check(th, s) \/ Move(th, s) \/ MoveMissing(th, s) \/ Touch(th, s)
             \/ MoveFails(th, s)
      PROVE  DownInv'
  <2>1. pc[th] \in Working /\ UNCHANGED <<log, job, cur, todo>>
    BY <1>7 DEF Check, Move, MoveMissing, Touch, MoveFails, Working
  <2>2. QED
    BY <1>5, <2>1
\* An append: what it adds is the last that was not logged as rolled back.
<1>8. ASSUME NEW th \in Threads, NEW s \in todo[th], IsNext(th, s),
             pc[th] \in {"intent", "log_ok", "log_err"},
             log' = Appended(cur[th], s, RecordType(th)),
             UNCHANGED <<job, cur>>,
             \/ pc'[th] \in {"idle", "next"}
             \/ pc'[th] \in {"intent", "read"} /\ pc[th] = "intent"
             \/ pc'[th] = "log_err" /\ pc[th] = "log_ok" /\ todo' = todo
             \/ pc'[th] = "check" /\ pc[th] = "log_ok" /\ todo'[th] = todo[th] \ {s}
      PROVE  DownInv'
  <2> DEFINE x == cur[th]
  <2>1. x \in Tx /\ s \in Nat /\ RecordType(th) \in Types
    BY <1>f DEF RecordType, Types, Outcomes
  <2>2. /\ \A u \in Tx : u # x \/ RecordType(th) # "INTENT" => Intents(u)' = Intents(u)
        /\ \A u \in Tx : u # x => (Has(u, "ROLLED_BACK")' <=> Has(u, "ROLLED_BACK"))
        /\ RecordType(th) # "ROLLED_BACK" =>
             ((\E i \in DOMAIN log' : log'[i].tx = x /\ log'[i].type = "ROLLED_BACK")
                <=> Has(x, "ROLLED_BACK"))
        /\ \A u \in Tx : \A y : Logged(u, y, "ROLLED_BACK")' <=>
             \/ Logged(u, y, "ROLLED_BACK")
             \/ u = x /\ y = s /\ RecordType(th) = "ROLLED_BACK"
    BY <1>8, <1>f, <2>1, WholeAppend DEF Has
  <2>3. CASE job[th] = "create"
    <3>1. Creating(th) /\ RecordType(th) # "ROLLED_BACK"
      BY <1>8, <2>3 DEF Creating, Working, RecordType
    <3>2. ~Has(x, "ROLLED_BACK")
      BY <1>d, <3>1 DEF DownLocal
    <3>3. ~Has(cur[th], "ROLLED_BACK")'
      BY <1>8, <2>2, <3>1, <3>2 DEF Has
    <3>4. DownLocal(th)'
      BY <1>8, <2>3, <3>3 DEF DownLocal
    <3>5. \A u \in Tx : \A y : Logged(u, y, "ROLLED_BACK")' => Logged(u, y, "ROLLED_BACK")
      BY <2>2, <3>1
    <3>6. \A y : ~Logged(x, y, "ROLLED_BACK")
      BY <3>2, LoggedHas
    <3>7. UndoneFromEnd'
      BY <2>1, <2>2, <3>1, <3>5, <3>6 DEF DownInv, UndoneFromEnd
    <3>8. QED
      BY <3>4, <3>7 DEF DownInv, OneAtATime
  <2>4. CASE job[th] # "create"
    <3>1. pc[th] \in {"log_ok", "log_err"} /\ RecordType(th) # "INTENT"
      BY <1>8, <1>d, <2>4 DEF UndoLocal, RecordType
    <3>2. \A u \in Intents(x) : u \in todo[th] \/ Logged(x, u, "ROLLED_BACK")
      BY <1>d, <2>4, <3>1 DEF DownLocal, Working
    <3>3. \A u \in todo[th] : u \in Nat /\ u <= s
      BY <1>8, <1>f, <2>4 DEF IsNext
    <3>4. \A u \in Tx : Intents(u)' = Intents(u)
      BY <2>2, <3>1
    <3>5. UndoneFromEnd'
      <4> SUFFICES ASSUME NEW t \in Tx, NEW y \in Intents(t), NEW u \in Intents(t),
                          y < u, Logged(t, y, "ROLLED_BACK")'
                   PROVE  Logged(t, u, "ROLLED_BACK")'
        BY <3>4 DEF UndoneFromEnd
      <4>1. CASE Logged(t, y, "ROLLED_BACK")
        <5>1. Logged(t, u, "ROLLED_BACK")
          BY <4>1 DEF DownInv, UndoneFromEnd
        <5>2. QED
          BY <2>2, <5>1
      <4>2. CASE t = x /\ y = s
        <5>1. u \notin todo[th]
          BY <2>1, <3>3, <4>2
        <5>2. Logged(t, u, "ROLLED_BACK")
          BY <3>2, <4>2, <5>1
        <5>3. QED
          BY <2>2, <5>2
      <4>3. QED
        BY <2>2, <4>1, <4>2
    <3>6. DownLocal(th)'
      <4>1. ~Creating(th)'
        BY <1>8, <2>4 DEF Creating
      <4>2. CASE pc'[th] \in {"idle", "next"}
        BY <4>1, <4>2 DEF DownLocal, Working
      <4>3. CASE pc'[th] = "log_err" /\ todo' = todo
        <5>1. \A u \in Intents(x) : u \in todo'[th] \/ Logged(x, u, "ROLLED_BACK")
          BY <3>2, <4>3
        <5>2. \A u \in Intents(cur[th])' : u \in todo'[th] \/ Logged(cur[th], u, "ROLLED_BACK")'
          BY <1>8, <2>1, <2>2, <3>4, <5>1
        <5>3. QED
          BY <4>1, <5>2 DEF DownLocal
      <4>4. CASE pc'[th] = "check" /\ pc[th] = "log_ok" /\ todo'[th] = todo[th] \ {s}
        <5>1. RecordType(th) = "ROLLED_BACK"
          BY <2>4, <4>4 DEF RecordType
        <5>2. \A u \in Intents(cur[th])' : u \in todo'[th] \/ Logged(cur[th], u, "ROLLED_BACK")'
          BY <1>8, <2>1, <2>2, <3>2, <3>4, <4>4, <5>1
        <5>3. QED
          BY <4>1, <5>2 DEF DownLocal
      <4>5. QED
        BY <1>8, <3>1, <4>2, <4>3, <4>4
    <3>7. QED
      BY <3>5, <3>6 DEF DownInv, OneAtATime
  <2>5. QED
    BY <2>3, <2>4
<1>9. ASSUME NEW th \in Threads, NEW s \in todo[th],
             AppendIntent(th, s) \/ LogOutcome(th, s) \/ LogFailure(th, s)
      PROVE  DownInv'
  <2>1. /\ IsNext(th, s) /\ pc[th] \in {"intent", "log_ok", "log_err"}
        /\ log' = Appended(cur[th], s, RecordType(th)) /\ UNCHANGED <<job, cur>>
    BY <1>9 DEF AppendIntent, LogOutcome, LogFailure
  <2>2. \/ pc'[th] \in {"idle", "next"}
        \/ pc'[th] \in {"intent", "read"} /\ pc[th] = "intent"
        \/ pc'[th] = "check" /\ pc[th] = "log_ok" /\ todo'[th] = todo[th] \ {s}
    BY <1>9, <1>f DEF AppendIntent, LogOutcome, LogFailure, Finish, Goto
  <2>3. QED
    BY <1>8, <2>1, <2>2
<1>10. ASSUME NEW th \in Threads, NEW s \in todo[th], AppendError(th, s) PROVE DownInv'
  <2>1. /\ IsNext(th, s) /\ pc[th] \in {"intent", "log_ok", "log_err"}
        /\ log' = log \/ log' = Appended(cur[th], s, RecordType(th))
        /\ UNCHANGED <<job, cur>>
    BY <1>10 DEF AppendError
  <2>2. \/ pc'[th] \in {"idle", "next"}
        \/ pc'[th] = "log_err" /\ pc[th] = "log_ok" /\ todo' = todo
    BY <1>10, <1>f DEF AppendError, Finish, Goto
  <2>3. CASE log' = log
    BY <1>3, <1>5, <2>1, <2>2, <2>3 DEF Working
  <2>4. CASE log' = Appended(cur[th], s, RecordType(th))
    BY <1>8, <2>1, <2>2, <2>4
  <2>5. QED
    BY <2>1, <2>3, <2>4
<1>11. ASSUME Crash PROVE DownInv'
  <2>1. log' = log /\ \A th \in Threads : pc'[th] = "idle"
    BY <1>11 DEF Crash
  <2>2. \A th \in Threads : DownLocal(th)'
    BY <2>1 DEF DownLocal, Creating, Working
  <2>3. UndoneFromEnd'
    BY <1>l, <2>1 DEF DownInv, UndoneFromEnd
  <2>4. QED
    BY <2>2, <2>3 DEF DownInv
<1>12. ASSUME UNCHANGED vars PROVE DownInv'
  <2>1. UNCHANGED <<log, pc, job, cur, todo>>
    BY <1>12 DEF vars
  <2>2. \A th \in Threads : DownLocal(th)'
    BY <1>d, <1>l, <2>1 DEF DownLocal, Creating
  <2>3. UndoneFromEnd'
    BY <1>l, <2>1 DEF DownInv, UndoneFromEnd
  <2>4. QED
    BY <2>2, <2>3 DEF DownInv
<1>13. QED
  BY <1>1, <1>6, <1>7, <1>9, <1>10, <1>11, <1>12 DEF Next, Progress, Step

\* With requests one at a time and no cut line, what is logged as rolled back of
\* a transaction is its end: for any number of operations, crashes, failing
\* steps and repeated calls, nothing stays applied on top of what was undone.
THEOREM UndoneIsEnd ==
  ASSUME OneAtATime, ~TornWrites
  PROVE  Spec => []UndoneFromEnd
<1>1. Init => IInv /\ UndoInv /\ ApplyInv /\ WholeLog /\ DownInv
  BY InitIInv, InitUndo, InitApplyInv, InitWhole, InitDown
<1>2. IInv /\ UndoInv /\ ApplyInv /\ WholeLog /\ DownInv /\ [Next]_vars
        => (IInv /\ UndoInv /\ ApplyInv /\ WholeLog /\ DownInv)'
  <2>1. IInv /\ [Next]_vars => IInv'
    BY NextIInv
  <2>2. IInv /\ UndoInv /\ [Next]_vars => UndoInv'
    BY NextUndo
  <2>3. IInv /\ ApplyInv /\ [Next]_vars => ApplyInv'
    BY NextApplyInv
  <2>4. IInv /\ WholeLog /\ [Next]_vars => WholeLog'
    BY NextWhole
  <2>5. QED
    BY <2>1, <2>2, <2>3, <2>4, NextDown
<1>3. DownInv => UndoneFromEnd
  BY DEF DownInv
<1>4. QED
  BY <1>1, <1>2, <1>3, PTL DEF Spec

-----------------------------------------------------------------------------
(* Requests served one at a time recover everything *)

\* As long as no append fails, recovery has still to visit, or is rolling back,
\* whatever is in flight.
ClearLocal(th) ==
  ioErrors = 0 =>
    /\ pc[th] = "next" => InFlight \subseteq pending[th]
    /\ pc[th] \in Working /\ job[th] = "recover" => InFlight \subseteq pending[th] \cup {cur[th]}

ClearInv == tail = "whole" /\ \A th \in Threads : ClearLocal(th)

\* What makes a transaction one in flight.
LEMMA InFlightHas ==
  /\ \A t \in Tx : t \in InFlight <=> Has(t, "INTENT") /\ \A o \in Outcomes : ~Has(t, o)
  /\ InFlight \subseteq Tx
BY DEF InFlight, TxState, Outcomes

\* An outcome that is appended takes its transaction, and adds none.
LEMMA OutcomeClears ==
  ASSUME log \in Seq(Record), tail = "whole", NEW t \in Tx, NEW s \in Nat, NEW ty \in Outcomes,
         log' = Appended(t, s, ty)
  PROVE  InFlight' \subseteq InFlight \ {t}
<1>1. [tx |-> t, seq |-> s, type |-> ty] \in Record
  BY DEF Record
<1>2. /\ DOMAIN log' = DOMAIN log \cup {Len(log) + 1}
      /\ log'[Len(log) + 1].tx = t /\ log'[Len(log) + 1].type = ty
      /\ \A i \in DOMAIN log : log'[i] = log[i]
  BY <1>1 DEF Appended
<1>3. Has(t, ty)'
  BY <1>2 DEF Has
<1>4. \A u, o : Has(u, o) => Has(u, o)'
  BY <1>2 DEF Has
<1>5. \A u : Has(u, "INTENT")' => Has(u, "INTENT")
  BY <1>2 DEF Has, Outcomes
<1>6. ASSUME NEW u \in InFlight' PROVE u \in InFlight \ {t}
  <2>1. u \in Tx
    BY <1>6 DEF InFlight
  <2>h. /\ Has(u, "INTENT")'
        /\ ~Has(u, "APPLIED")' /\ ~Has(u, "ROLLED_BACK")' /\ ~Has(u, "FAILED")'
    BY <1>6, <2>1 DEF InFlight, TxState, Outcomes
  <2>o. \A o \in Outcomes : ~Has(u, o)'
    BY <2>h DEF Outcomes
  <2>2. QED
    BY <1>3, <1>4, <1>5, <2>1, <2>h, <2>o, InFlightHas
<1>7. QED
  BY <1>6

\* Nothing is torn at first, and no thread runs.
LEMMA InitClear == Init => ClearInv
BY DEF Init, ClearInv, ClearLocal, Working

\* Each step of the one thread keeps what is in flight within its reach.
LEMMA NextClear ==
  ASSUME OneAtATime, ~TornWrites
  PROVE  IInv /\ UndoInv /\ ClearInv /\ [Next]_vars => ClearInv'
<1> SUFFICES ASSUME IInv, UndoInv, ClearInv, [Next]_vars PROVE ClearInv'
  OBVIOUS
<1>f. /\ pc \in [Threads -> PCs] /\ todo \in [Threads -> SUBSET Nat]
      /\ cur \in [Threads -> Tx] /\ job \in [Threads -> Jobs]
      /\ pending \in [Threads -> SUBSET Tx] /\ log \in Seq(Record) /\ ioErrors \in Nat
  BY DEF IInv, TypeOK
<1> USE DEF sys, thr, cnt, hist
\* A step of th, which is the only thread.
<1>q. ASSUME NEW th \in Threads, tail' = "whole", ClearLocal(th)' PROVE ClearInv'
  BY <1>q DEF ClearInv, OneAtATime
<1>l. log' = log => InFlight' = InFlight
  BY DEF InFlight, TxState, Has
<1>j. \A th \in Threads : /\ ClearLocal(th) /\ tail = "whole"
                          /\ pc[th] \in {"intent", "read"} => job[th] = "create"
                          /\ pc[th] = "next" => job[th] = "recover"
  BY DEF ClearInv, UndoInv, UndoLocal
<1>1. ASSUME NEW th \in Threads,
             ReadIntents(th) \/ \E t \in Tx : Begin(th, t) \/ StartRollback(th, t)
      PROVE  ClearInv'
  <2>1. tail' = "whole" /\ job'[th] \in {"create", "rollback"} /\ pc'[th] # "next"
    BY <1>1, <1>f, <1>j DEF Begin, ReadIntents, StartRollback, Finish, Goto
  <2>2. QED
    BY <1>q, <2>1 DEF ClearLocal
<1>2. ASSUME NEW th \in Threads, StartRecover(th) PROVE ClearInv'
  <2>1. tail' = "whole" /\ log' = log /\ pc'[th] = "next" /\ pending'[th] = InFlight
    BY <1>2, <1>f, <1>j DEF StartRecover, Goto, InFlight
  <2>2. QED
    BY <1>q, <1>l, <2>1 DEF ClearLocal, Working
<1>3. ASSUME NEW th \in Threads, RecoverNext(th) PROVE ClearInv'
  <2>1. pc[th] = "next" /\ tail' = "whole" /\ log' = log /\ ioErrors' = ioErrors
    BY <1>3, <1>j DEF RecoverNext
  <2>2. \/ pc'[th] = "idle"
        \/ pc'[th] = "check" /\ pending[th] \subseteq pending'[th] \cup {cur'[th]}
    BY <1>3, <1>f DEF RecoverNext, Goto
  <2>3. QED
    BY <1>q, <1>l, <1>j, <2>1, <2>2 DEF ClearLocal, Working
<1>4. ASSUME NEW th \in Threads, NEW s \in todo[th],
             Check(th, s) \/ Move(th, s) \/ MoveMissing(th, s) \/ Touch(th, s)
      PROVE  ClearInv'
  <2>1. /\ pc[th] \in Working /\ log' = log /\ tail' = "whole"
        /\ UNCHANGED <<job, cur, pending, ioErrors>>
    BY <1>4, <1>j DEF Check, Move, MoveMissing, Touch, Working
  <2>2. pc'[th] # "next"
    <3>1. Decide(OpOf(th, s)) \in {"move", "noop", "touch", "fail"}
      <4>1. OpOf(th, s).kind \in Kinds
        BY OpOfType DEF IInv, Op
      <4>2. QED
        BY <4>1 DEF Decide, Kinds
    <3>2. QED
      BY <1>4, <1>f, <3>1 DEF Check, Move, MoveMissing, Touch, Goto
  <2>3. QED
    BY <1>q, <1>l, <1>j, <2>1, <2>2 DEF ClearLocal
<1>5. ASSUME NEW th \in Threads, NEW s \in todo[th], AppendIntent(th, s) PROVE ClearInv'
  <2>1. tail' = "whole" /\ job'[th] = "create" /\ pc'[th] # "next"
    BY <1>5, <1>f, <1>j DEF AppendIntent, Goto
  <2>2. QED
    BY <1>q, <2>1 DEF ClearLocal
<1>6. ASSUME NEW th \in Threads, NEW s \in todo[th], LogOutcome(th, s) \/ LogFailure(th, s)
      PROVE  ClearInv'
  <2>1. /\ pc[th] \in {"log_ok", "log_err"} /\ tail' = "whole"
        /\ log' = Appended(cur[th], s, RecordType(th))
        /\ UNCHANGED <<job, cur, pending, ioErrors>>
    BY <1>6 DEF LogOutcome, LogFailure
  <2>2. RecordType(th) \in Outcomes
    BY <2>1 DEF RecordType, Outcomes
  <2>3. InFlight' \subseteq InFlight \ {cur[th]}
    BY <1>f, <1>j, <2>1, <2>2, OutcomeClears
  <2>4. pc'[th] \in {"check", "idle"} \/ (pc'[th] = "next" /\ job[th] = "recover")
    BY <1>6, <1>f DEF LogOutcome, LogFailure, Finish, Goto
  <2>5. QED
    BY <1>q, <1>j, <2>1, <2>3, <2>4 DEF ClearLocal, Working
<1>7. ASSUME NEW th \in Threads, NEW s \in todo[th], MoveFails(th, s) \/ AppendError(th, s)
      PROVE  ClearInv'
  <2>1. ioErrors' # 0 /\ tail' = "whole"
    BY <1>7, <1>f, <1>j DEF AppendError, MoveFails
  <2>2. QED
    BY <1>q, <2>1 DEF ClearLocal
<1>8. ASSUME Crash PROVE ClearInv'
  <2>1. tail' = "whole" /\ \A th \in Threads : pc'[th] = "idle"
    BY <1>8 DEF Crash, ClearInv
  <2>2. QED
    BY <2>1 DEF ClearInv, ClearLocal, Working
<1>9. ASSUME UNCHANGED vars PROVE ClearInv'
  BY <1>9, <1>l DEF vars, ClearInv, ClearLocal
<1>10. QED
  BY <1>1, <1>2, <1>3, <1>4, <1>5, <1>6, <1>7, <1>8, <1>9 DEF Next, Progress, Step

\* With requests one at a time, no cut line and no I/O error, recover_transactions
\* answers only when nothing is left in flight, wherever earlier crashes were.
THEOREM RecoveryComplete ==
  ASSUME OneAtATime, ~TornWrites
  PROVE  Spec => RecoverClears
<1> DEFINE Clears ==
      \A th \in Threads :
        pc[th] = "next" /\ pc'[th] = "idle" /\ crashes' = crashes /\ ioErrors = 0
          => InFlight = {}
<1>1. Init => IInv /\ UndoInv /\ ClearInv
  BY InitIInv, InitUndo, InitClear
<1>2. IInv /\ UndoInv /\ ClearInv /\ [Next]_vars => (IInv /\ UndoInv /\ ClearInv)'
  <2>1. IInv /\ [Next]_vars => IInv'
    BY NextIInv
  <2>2. IInv /\ UndoInv /\ [Next]_vars => UndoInv'
    BY NextUndo
  <2>3. IInv /\ UndoInv /\ ClearInv /\ [Next]_vars => ClearInv'
    BY NextClear
  <2>4. QED
    BY <2>1, <2>2, <2>3
<1>3. IInv /\ UndoInv /\ ClearInv /\ [Next]_vars => [Clears]_vars
  <2> SUFFICES ASSUME IInv, UndoInv, ClearInv, Next, NEW th \in Threads,
                      pc[th] = "next", pc'[th] = "idle", crashes' = crashes, ioErrors = 0
               PROVE  InFlight = {}
    OBVIOUS
  <2>1. ~Crash
    BY DEF Crash, IInv, TypeOK
  <2>2. PICK u \in Threads :
          \/ \E t \in Tx : Begin(u, t) \/ StartRollback(u, t)
          \/ StartRecover(u)
          \/ Progress(u)
          \/ \E s \in todo[u] : MoveFails(u, s) \/ AppendError(u, s)
    BY <2>1 DEF Next
  <2>3. u = th
    BY DEF OneAtATime
  <2>4. RecoverNext(th)
    BY <2>2, <2>3 DEF Begin, StartRollback, StartRecover, Progress, Step, AppendError,
                      MoveFails, AppendIntent, Check, Move, MoveMissing, Touch, LogOutcome, LogFailure,
                      ReadIntents
  <2>5. pc \in [Threads -> PCs]
    BY DEF IInv, TypeOK
  <2>6. pending[th] = {}
    BY <2>4, <2>5 DEF RecoverNext, Goto
  <2>7. QED
    BY <2>6 DEF ClearInv, ClearLocal
<1>4. QED
  BY <1>1, <1>2, <1>3, PTL DEF Spec, RecoverClears

-----------------------------------------------------------------------------
(* Requests served one at a time give the files back *)

Files == [Path -> Content \cup {None, Blank}]

\* The sequence numbers that the log l says are rolled back.
RolledOf(l, t) ==
  {l[i].seq : i \in {j \in DOMAIN l : l[j].tx = t /\ l[j].type = "ROLLED_BACK"}}

\* op, which its tests let pass, moves a file to a free path and makes f of it g.
MovedBy(f, g, op) ==
  /\ op.kind = "rename" => {op.src, op.dst} \subseteq Allowed
  /\ f[op.src] # None /\ f[op.dst] = None
  /\ g = [f EXCEPT ![op.dst] = f[op.src], ![op.src] = None]

\* The first m of ops, moved one after the other from b, pass f after the first k.
Chain(b, f, ops, m, k) ==
  \E h \in [Nat -> Files] :
    /\ h[0] = b /\ h[k] = f
    /\ \A i \in 1 .. m : MovedBy(h[i - 1], h[i], ops[i])

Lesser(i, j) == IF i <= j THEN i ELSE j

\* t stands k moves from where it began, of the m it made.
Stands(t, m, k) == Chain(base[t], fs, req[t], m, k)

\* INTENTs are numbered without a gap, up to what is left to log.
NumberedOf(t) ==
  \E n \in Nat :
    /\ IntentsOf(log, t) = 1 .. n
    /\ \A th \in Threads : pc[th] = "intent" /\ cur[th] = t => todo[th] = n + 1 .. Len(req[t])

\* While no operation is logged as rolled back, at most the last has been undone;
\* when all are, the files are those of the beginning.
AtRest(t, m) ==
  /\ RolledOf(log, t) = {} =>
       \/ Stands(t, m, m)
       \/ /\ m # 0 /\ \A u \in IntentsOf(log, t) : u <= m
          /\ Stands(t, m, m - 1)
  /\ RolledOf(log, t) # {} /\ IntentsOf(log, t) \subseteq RolledOf(log, t) => fs = base[t]

\* apply_tx has made the moves before the operation it visits, and its own.
Applying(th, m) ==
  LET t == cur[th] IN
  /\ RolledOf(log, t) = {} /\ Stands(t, m, m)
  /\ pc[th] \in {"intent", "read"} => m = 0
  /\ pc[th] \in {"check", "move", "touch"} => todo[th] = m + 1 .. Len(req[t])
  /\ pc[th] = "move" => Decide(OpOf(th, m + 1)) = "move"
  /\ pc[th] = "log_ok" => m # 0 /\ todo[th] = m .. Len(req[t])

\* _rollback_tx has undone, and logged, what it visited before; an earlier pass
\* may have undone the first that it visits.
Undoing(th, m) ==
  LET t == cur[th] IN
  pc[th] # "log_err" =>
    \E s \in Nat :
      /\ todo[th] = 1 .. s
      /\ \A u \in IntentsOf(log, t) : u <= s \/ u \in RolledOf(log, t)
      /\ pc[th] = "check" => Stands(t, m, Lesser(s, m)) \/ (m # 0 /\ m = s /\ Stands(t, m, m - 1))
      /\ pc[th] \in {"move", "touch"} => Stands(t, m, Lesser(s, m))
      /\ pc[th] = "move" => Exists(OpOf(th, s).src)
      /\ pc[th] = "log_ok" => Stands(t, m, Lesser(s - 1, m))

At(th, t) == cur[th] = t /\ pc[th] \in {"intent", "read"} \cup Working

\* A transaction whose undo is the reverse moves can be given back.
Restorable(t) ==
  \E m \in Nat :
    /\ moved[t] = 1 .. m /\ moved[t] \subseteq IntentsOf(log, t)
    /\ AtRest(t, m)
    /\ \A th \in Threads : At(th, t) => IF job[th] = "create" THEN Applying(th, m)
                                                              ELSE Undoing(th, m)

RestoreInv == (\A t \in Tx : NumberedOf(t)) /\ \A t \in Tx \ impure : Restorable(t)

-----------------------------------------------------------------------------
(* Lemmas on moves that are undone *)

\* RolledOf is what Logged and Has see.
LEMMA RolledLogged ==
  ASSUME log \in Seq(Record), NEW t \in Tx
  PROVE  /\ \A s : Logged(t, s, "ROLLED_BACK") <=> s \in RolledOf(log, t)
         /\ ~Has(t, "ROLLED_BACK") <=> RolledOf(log, t) = {}
<1>1. \A i \in DOMAIN log : log[i] = [tx |-> log[i].tx, seq |-> log[i].seq, type |-> log[i].type]
  <2>1. \A r \in Record : r = [tx |-> r.tx, seq |-> r.seq, type |-> r.type]
    BY DEF Record
  <2>2. \A i \in DOMAIN log : log[i] \in Record
    OBVIOUS
  <2>3. QED
    BY <2>1, <2>2
<1>2. \A s : Logged(t, s, "ROLLED_BACK") <=> s \in RolledOf(log, t)
  BY <1>1 DEF Logged, RolledOf
<1>3. Has(t, "ROLLED_BACK") <=> \E s : s \in RolledOf(log, t)
  BY DEF Has, RolledOf
<1>4. QED
  BY <1>2, <1>3

\* What an append adds to it.
LEMMA RolledAppend ==
  ASSUME log \in Seq(Record), NEW t \in Tx, NEW s \in Nat, NEW ty \in Types, tail = "whole",
         log' = Appended(t, s, ty)
  PROVE  /\ \A u \in Tx : u # t => RolledOf(log', u) = RolledOf(log, u)
         /\ RolledOf(log', t) = RolledOf(log, t) \cup (IF ty = "ROLLED_BACK" THEN {s} ELSE {})
<1> DEFINE rec == [tx |-> t, seq |-> s, type |-> ty]
<1>1. rec \in Record
  BY DEF Record, Types
<1>2. log' = Append(log, rec)
  BY DEF Appended
<1>3. /\ DOMAIN log' = DOMAIN log \cup {Len(log) + 1}
      /\ log'[Len(log) + 1] = rec
      /\ \A i \in DOMAIN log : log'[i] = log[i]
  BY <1>1, <1>2
<1>4. rec.tx = t /\ rec.seq = s /\ rec.type = ty
  OBVIOUS
<1> HIDE DEF rec
<1>5. \A u \in Tx : u # t => RolledOf(log', u) = RolledOf(log, u)
  BY <1>3, <1>4 DEF RolledOf
<1>6. RolledOf(log', t) = RolledOf(log, t) \cup (IF ty = "ROLLED_BACK" THEN {s} ELSE {})
  BY <1>3, <1>4 DEF RolledOf
<1>7. QED
  BY <1>5, <1>6

\* Of an interval the loop of apply_tx visits the first, that of _rollback_tx the last.
LEMMA NextOfInterval ==
  ASSUME NEW th \in Threads, NEW i \in Nat, NEW j \in Nat, todo[th] = i .. j,
         NEW s \in todo[th], IsNext(th, s)
  PROVE  s = IF job[th] = "create" THEN i ELSE j
<1>1. s \in Nat /\ i \in todo[th] /\ j \in todo[th] /\ i <= s /\ s <= j
  OBVIOUS
<1>2. QED
  BY <1>1 DEF IsNext

\* A move to a free path is reversed by the move back.
LEMMA MoveBack ==
  ASSUME NEW f \in Files, NEW g \in Files, NEW op \in Op, MovedBy(f, g, op)
  PROVE  /\ g[op.dst] # None /\ g[op.src] = None
         /\ f = [g EXCEPT ![op.src] = g[op.dst], ![op.dst] = None]
<1>1. op.src \in Path /\ op.dst \in Path /\ op.src # op.dst
  BY DEF MovedBy, Op
<1>2. g = [f EXCEPT ![op.dst] = f[op.src], ![op.src] = None]
  BY DEF MovedBy
<1>3. /\ g[op.dst] = f[op.src] /\ g[op.src] = None
      /\ \A p \in Path \ {op.src, op.dst} : g[p] = f[p]
  <2>1. DOMAIN f = Path
    BY DEF Files
  <2>2. QED
    BY <1>1, <1>2, <2>1
<1> DEFINE e == [g EXCEPT ![op.src] = g[op.dst], ![op.dst] = None]
<1>4. /\ e \in [Path -> Content \cup {None, Blank}]
      /\ e[op.src] = g[op.dst] /\ e[op.dst] = None
      /\ \A p \in Path \ {op.src, op.dst} : e[p] = g[p]
  BY <1>1 DEF Files
<1> HIDE DEF e
<1>5. \A p \in Path : e[p] = f[p]
  BY <1>3, <1>4 DEF MovedBy
<1>6. e = f
  BY <1>4, <1>5 DEF Files
<1>7. QED
  BY <1>3, <1>6 DEF MovedBy, e

\* The tests of the inverse let it pass when the move was made, and find nothing to
\* do when it was not, or was undone.
LEMMA InverseDecides ==
  ASSUME NEW f \in Files, NEW g \in Files, NEW op \in Op, MovedBy(f, g, op)
  PROVE  /\ fs = g => Decide(Inverse(op)) = "move"
         /\ fs = f => Decide(Inverse(op)) = "noop"
<1>1. /\ g[op.dst] # None /\ g[op.src] = None /\ f[op.src] # None /\ f[op.dst] = None
      /\ op.kind = "rename" => {op.src, op.dst} \subseteq Allowed
  <2>1. g[op.dst] # None /\ g[op.src] = None
    BY MoveBack
  <2>2. QED
    BY <2>1 DEF MovedBy
<1>2. /\ Inverse(op).src = op.dst /\ Inverse(op).dst = op.src
      /\ Inverse(op).kind \in Kinds
      /\ Inverse(op).kind = "rename" => op.kind = "rename"
  <2>1. op.kind \in {"rename", "enable", "disable"}
    BY DEF Op, Kinds
  <2>2. CASE op.kind = "rename"
    BY <2>2 DEF Inverse, Kinds
  <2>3. CASE op.kind = "enable"
    BY <2>3 DEF Inverse, Kinds
  <2>4. CASE op.kind = "disable"
    BY <2>4 DEF Inverse, Kinds
  <2>5. QED
    BY <2>1, <2>2, <2>3, <2>4
<1>3. Inverse(op).kind \in {"rename", "enable", "disable"}
  BY <1>2 DEF Kinds
<1>4. QED
  BY <1>1, <1>2, <1>3 DEF Decide, Exists

\* One more move makes the chain one longer.
LEMMA ChainGrows ==
  ASSUME NEW b, NEW f, NEW g \in Files, NEW ops, NEW m \in Nat,
         Chain(b, f, ops, m, m), MovedBy(f, g, ops[m + 1])
  PROVE  Chain(b, g, ops, m + 1, m + 1)
<1>1. PICK h \in [Nat -> Files] :
        /\ h[0] = b /\ h[m] = f
        /\ \A i \in 1 .. m : MovedBy(h[i - 1], h[i], ops[i])
  BY DEF Chain
<1> DEFINE l == [h EXCEPT ![m + 1] = g]
<1>2. /\ l \in [Nat -> Files] /\ l[m + 1] = g /\ \A i \in 0 .. m : l[i] = h[i]
  OBVIOUS
<1> HIDE DEF l
<1>3. l[0] = b /\ l[m] = f
  BY <1>1, <1>2
<1>4. ASSUME NEW i \in 1 .. m + 1 PROVE MovedBy(l[i - 1], l[i], ops[i])
  <2>1. CASE i = m + 1
    <3>1. i - 1 = m
      BY <2>1
    <3>2. QED
      BY <1>2, <1>3, <2>1, <3>1
  <2>2. CASE i # m + 1
    <3>1. i \in 1 .. m /\ i \in 0 .. m /\ i - 1 \in 0 .. m
      BY <2>2
    <3>2. QED
      BY <1>1, <1>2, <3>1
  <2>3. QED
    BY <2>1, <2>2
<1>5. QED
  BY <1>2, <1>3, <1>4 DEF Chain

\* Behind the last move of a chain are the files before it.
LEMMA ChainBack ==
  ASSUME NEW b, NEW f, NEW ops, NEW m \in Nat, NEW k \in 1 .. m, Chain(b, f, ops, m, k)
  PROVE  \E e \in Files : MovedBy(e, f, ops[k]) /\ Chain(b, e, ops, m, k - 1)
<1>1. PICK h \in [Nat -> Files] :
        /\ h[0] = b /\ h[k] = f
        /\ \A i \in 1 .. m : MovedBy(h[i - 1], h[i], ops[i])
  BY DEF Chain
<1>2. k - 1 \in Nat
  OBVIOUS
<1>3. h[k - 1] \in Files /\ Chain(b, h[k - 1], ops, m, k - 1)
  BY <1>1, <1>2 DEF Chain
<1>4. QED
  BY <1>1, <1>3

\* Chains at their start.
LEMMA ChainStart ==
  ASSUME NEW b, NEW f, NEW ops, NEW m
  PROVE  /\ b \in Files => Chain(b, b, ops, 0, 0)
         /\ Chain(b, f, ops, m, 0) => f = b
<1>1. ASSUME b \in Files PROVE Chain(b, b, ops, 0, 0)
  <2> DEFINE h == [i \in Nat |-> b]
  <2>1. h \in [Nat -> Files] /\ h[0] = b
    BY <1>1
  <2>2. 1 .. 0 = {}
    OBVIOUS
  <2>3. QED
    BY <2>1, <2>2 DEF Chain
<1>2. QED
  BY <1>1 DEF Chain

\* Before the next move of a chain are the files it was made from.
LEMMA ChainNext ==
  ASSUME NEW b, NEW f, NEW ops, NEW m \in Nat, NEW k \in 1 .. m, Chain(b, f, ops, m, k - 1)
  PROVE  \E g \in Files : MovedBy(f, g, ops[k])
<1>1. PICK h \in [Nat -> Files] :
        /\ h[0] = b /\ h[k - 1] = f
        /\ \A i \in 1 .. m : MovedBy(h[i - 1], h[i], ops[i])
  BY DEF Chain
<1>2. h[k] \in Files
  BY <1>1
<1>3. QED
  BY <1>1, <1>2

-----------------------------------------------------------------------------
(* Steps that give back, or leave alone *)

SerialInv == IInv /\ UndoInv /\ ApplyInv /\ WholeLog /\ RestoreInv

\* A step that does nothing to t.
Frame(t) ==
  /\ fs' = fs /\ base'[t] = base[t] /\ req'[t] = req[t] /\ moved'[t] = moved[t]
  /\ IntentsOf(log', t) = IntentsOf(log, t) /\ RolledOf(log', t) = RolledOf(log, t)

\* It leaves t where it stands.
LEMMA Framed ==
  ASSUME NEW t \in Tx, Frame(t)
  PROVE  /\ \A m, k : Stands(t, m, k) => Stands(t, m, k)'
         /\ \A m : AtRest(t, m) => AtRest(t, m)'
<1>1. \A m, k : Stands(t, m, k) <=> Stands(t, m, k)'
  BY DEF Stands, Frame
<1>2. \A m : AtRest(t, m) => AtRest(t, m)'
  BY <1>1 DEF AtRest, Frame
<1>3. QED
  BY <1>1, <1>2

\* A step of the one thread keeps the invariant when it works on x only.
LEMMA StepRestores ==
  ASSUME OneAtATime, RestoreInv, NEW th \in Threads, NEW x \in Tx,
         \A t \in Tx \ {x} :
           /\ ~At(th, t)'
           /\ IntentsOf(log', t) = IntentsOf(log, t) /\ req'[t] = req[t]
           /\ t \in impure' \/ (t \notin impure /\ Frame(t)),
         NumberedOf(x)', x \in impure' \/ Restorable(x)'
  PROVE  RestoreInv'
<1>1. ASSUME NEW t \in Tx PROVE NumberedOf(t)'
  <2>1. CASE t = x
    BY <2>1
  <2>2. CASE t # x
    <3>1. ~At(th, t)' /\ IntentsOf(log', t) = IntentsOf(log, t)
      BY <2>2
    <3>2. ~(pc'[th] = "intent" /\ cur'[th] = t)
      BY <3>1 DEF At
    <3>3. PICK n \in Nat : IntentsOf(log, t) = 1 .. n
      BY DEF RestoreInv, NumberedOf
    <3>4. QED
      BY <3>1, <3>2, <3>3 DEF NumberedOf, OneAtATime
  <2>3. QED
    BY <2>1, <2>2
<1>2. ASSUME NEW t \in Tx \ {x}, t \notin impure' PROVE Restorable(t)'
  <2>1. t \notin impure /\ Frame(t) /\ ~At(th, t)'
    BY <1>2
  <2>2. PICK m \in Nat :
          moved[t] = 1 .. m /\ moved[t] \subseteq IntentsOf(log, t) /\ AtRest(t, m)
    BY <2>1 DEF RestoreInv, Restorable
  <2>3. moved'[t] = 1 .. m /\ moved'[t] \subseteq IntentsOf(log', t)
    BY <2>1, <2>2 DEF Frame
  <2>4. AtRest(t, m)'
    BY <2>1, <2>2, Framed
  <2>5. \A u \in Threads : ~At(u, t)'
    BY <2>1 DEF OneAtATime
  <2>6. QED
    BY <2>3, <2>4, <2>5 DEF Restorable
<1>3. QED
  BY <1>1, <1>2 DEF RestoreInv

\* So does one that leaves no thread at work, and all transactions alone.
LEMMA LeaveRestores ==
  ASSUME RestoreInv, impure' = impure, \A t \in Tx : Frame(t),
         \A th \in Threads : pc'[th] \notin {"intent", "read"} \cup Working
  PROVE  RestoreInv'
<1>1. ASSUME NEW t \in Tx PROVE NumberedOf(t)'
  <2>1. PICK n \in Nat : IntentsOf(log, t) = 1 .. n
    BY DEF RestoreInv, NumberedOf
  <2>2. IntentsOf(log', t) = 1 .. n
    BY <2>1 DEF Frame
  <2>3. QED
    BY <2>2 DEF NumberedOf
<1>2. ASSUME NEW t \in Tx \ impure PROVE Restorable(t)'
  <2>1. PICK m \in Nat :
          moved[t] = 1 .. m /\ moved[t] \subseteq IntentsOf(log, t) /\ AtRest(t, m)
    BY DEF RestoreInv, Restorable
  <2>2. moved'[t] = 1 .. m /\ moved'[t] \subseteq IntentsOf(log', t)
    BY <2>1 DEF Frame
  <2>3. AtRest(t, m)'
    BY <2>1, Framed
  <2>4. \A u \in Threads : ~At(u, t)'
    BY DEF At
  <2>5. QED
    BY <2>2, <2>3, <2>4 DEF Restorable
<1>3. QED
  BY <1>1, <1>2 DEF RestoreInv

\* A transaction stands at its beginning as it begins.
LEMMA BeginRestores ==
  ASSUME OneAtATime, SerialInv, NEW th \in Threads, NEW t \in Tx, Begin(th, t)
  PROVE  RestoreInv'
<1>f. /\ pc \in [Threads -> PCs] /\ todo \in [Threads -> SUBSET Nat] /\ fs \in Files
      /\ cur \in [Threads -> Tx] /\ job \in [Threads -> Jobs] /\ log \in Seq(Record)
      /\ req \in [Tx -> Seq(Op)] /\ base \in [Tx -> Files]
  BY DEF SerialInv, IInv, TypeOK, Files
<1>1. PICK ops \in Requests :
        req' = [req EXCEPT ![t] = ops] /\ todo' = [todo EXCEPT ![th] = DOMAIN ops]
  BY DEF Begin
<1>2. ops \in Seq(Op) /\ Len(ops) \in Nat /\ DOMAIN ops = 1 .. Len(ops)
  BY OpsAssumption
<1>3. req[t] = <<>> /\ DOMAIN <<>> = {}
  BY DEF Begin
<1>4. IntentsOf(log, t) = {}
  BY <1>3 DEF SerialInv, IInv, RequestInv, IntentsOf, IntentTypes
<1>5. RolledOf(log, t) = {}
  <2> SUFFICES ASSUME NEW i \in DOMAIN log, log[i].tx = t, log[i].type = "ROLLED_BACK"
               PROVE  FALSE
    BY DEF RolledOf
  <2>1. PICK j \in 1 .. (i - 1) : log[j].tx = t /\ log[j].type \in IntentTypes
    BY DEF SerialInv, IInv, IntentBeforeOutcome, Outcomes, IntentTypes
  <2>2. j \in DOMAIN log
    BY <1>f, <2>1
  <2>3. QED
    BY <1>3, <2>1, <2>2 DEF SerialInv, IInv, RequestInv
<1>6. moved[t] = {}
  BY <1>3 DEF SerialInv, ApplyInv, CreatorInv
<1>7. /\ fs' = fs /\ log' = log /\ moved' = moved /\ impure' = impure \ {t}
      /\ base' = [base EXCEPT ![t] = fs]
      /\ pc'[th] = "intent" /\ cur'[th] = t /\ job'[th] = "create"
  BY <1>f DEF Begin, Goto, sys
<1>8. ASSUME NEW u \in Tx \ {t}
      PROVE  /\ ~At(th, u)'
             /\ IntentsOf(log', u) = IntentsOf(log, u) /\ req'[u] = req[u]
             /\ u \in impure' \/ (u \notin impure /\ Frame(u))
  BY <1>f, <1>1, <1>7 DEF At, Frame
<1>9. req'[t] = ops /\ todo'[th] = DOMAIN ops /\ base'[t] = fs
  BY <1>f, <1>1, <1>7
<1>10. 1 .. 0 = {} /\ 0 \in Nat
  OBVIOUS
<1>11. NumberedOf(t)'
  <2>1. IntentsOf(log', t) = 1 .. 0
    BY <1>4, <1>7, <1>10
  <2>2. todo'[th] = 0 + 1 .. Len(req'[t])
    BY <1>2, <1>9
  <2>3. QED
    BY <1>10, <2>1, <2>2 DEF NumberedOf, OneAtATime
<1>12. Stands(t, 0, 0)'
  BY <1>f, <1>7, <1>9, ChainStart DEF Stands
<1>13. AtRest(t, 0)'
  BY <1>5, <1>7, <1>12 DEF AtRest
<1>14. Applying(th, 0)'
  BY <1>5, <1>7, <1>12 DEF Applying
<1>15. moved'[t] = 1 .. 0 /\ moved'[t] \subseteq IntentsOf(log', t)
  BY <1>6, <1>7, <1>10
<1>16. Restorable(t)'
  BY <1>7, <1>10, <1>13, <1>14, <1>15 DEF Restorable, OneAtATime
<1>17. QED
  BY <1>8, <1>11, <1>16, StepRestores DEF SerialInv

\* What a thread that works on a pure transaction knows of it.
LEMMA AtWork ==
  ASSUME RestoreInv, NEW th \in Threads, cur[th] \in Tx, cur[th] \notin impure,
         pc[th] \in {"intent", "read"} \cup Working
  PROVE  \E m \in Nat :
           /\ moved[cur[th]] = 1 .. m /\ moved[cur[th]] \subseteq IntentsOf(log, cur[th])
           /\ AtRest(cur[th], m)
           /\ IF job[th] = "create" THEN Applying(th, m) ELSE Undoing(th, m)
<1>1. Restorable(cur[th])
  BY DEF RestoreInv
<1>2. At(th, cur[th])
  BY DEF At
<1>3. QED
  BY <1>1, <1>2 DEF Restorable

\* An append leaves what is numbered and rolled back of other transactions alone.
LEMMA AppendElsewhere ==
  ASSUME SerialInv, ~TornWrites, NEW x \in Tx, NEW s \in Nat, NEW ty \in Types,
         log' = log \/ log' = Appended(x, s, ty)
  PROVE  /\ \A t \in Tx \ {x} : IntentsOf(log', t) = IntentsOf(log, t)
                                /\ RolledOf(log', t) = RolledOf(log, t)
         /\ ty # "INTENT" => IntentsOf(log', x) = IntentsOf(log, x)
         /\ ty # "ROLLED_BACK" => RolledOf(log', x) = RolledOf(log, x)
         /\ log' # log =>
              /\ ty = "INTENT" => IntentsOf(log', x) = IntentsOf(log, x) \cup {s}
              /\ ty = "ROLLED_BACK" => RolledOf(log', x) = RolledOf(log, x) \cup {s}
<1>1. log \in Seq(Record) /\ tail = "whole"
  BY DEF SerialInv, IInv, TypeOK, ApplyInv
<1>2. CASE log' = log
  BY <1>2
<1>3. CASE log' # log
  <2>1. log' = Appended(x, s, ty)
    BY <1>3
  <2>2. /\ \A u \in Tx : u # x => IntentsOf(log', u) = IntentsOf(log, u)
        /\ ty # "INTENT" => IntentsOf(log', x) = IntentsOf(log, x)
        /\ ty = "INTENT" => IntentsOf(log', x) = IntentsOf(log, x) \cup {s}
    BY <1>1, <2>1, AppendSets
  <2>3. /\ \A u \in Tx : u # x => RolledOf(log', u) = RolledOf(log, u)
        /\ RolledOf(log', x) = RolledOf(log, x) \cup (IF ty = "ROLLED_BACK" THEN {s} ELSE {})
    BY <1>1, <2>1, RolledAppend
  <2>4. QED
    BY <1>3, <2>2, <2>3
<1>4. QED
  BY <1>2, <1>3

\* INTENTs are logged before anything moves.
LEMMA IntentRestores ==
  ASSUME OneAtATime, ~TornWrites, SerialInv, NEW th \in Threads, NEW s \in todo[th],
         \/ AppendIntent(th, s)
         \/ AppendError(th, s) /\ pc[th] = "intent"
  PROVE  RestoreInv'
<1> DEFINE x == cur[th]
<1>f. /\ pc \in [Threads -> PCs] /\ todo \in [Threads -> SUBSET Nat]
      /\ cur \in [Threads -> Tx] /\ job \in [Threads -> Jobs]
      /\ req \in [Tx -> Seq(Op)]
  BY DEF SerialInv, IInv, TypeOK
<1>t. x \in Tx /\ s \in Nat /\ "INTENT" \in Types /\ Len(req[x]) \in Nat
  BY <1>f DEF Types
<1>1. /\ pc[th] = "intent" /\ IsNext(th, s) /\ job[th] = "create" /\ RecordType(th) = "INTENT"
      /\ UNCHANGED <<fs, req, job, cur, moved, base, impure>>
  BY DEF AppendIntent, AppendError, RecordType, SerialInv, UndoInv, UndoLocal, hist
<1>2. \/ /\ AppendIntent(th, s) /\ log' = Appended(x, s, "INTENT")
         /\ todo'[th] = todo[th] \ {s} /\ pc'[th] \in {"intent", "read"}
      \/ /\ log' = log \/ log' = Appended(x, s, "INTENT")
         /\ pc'[th] \in {"idle", "next"}
  BY <1>f, <1>1 DEF AppendIntent, AppendError, Finish, Goto
<1>3. /\ \A t \in Tx \ {x} : IntentsOf(log', t) = IntentsOf(log, t)
                             /\ RolledOf(log', t) = RolledOf(log, t)
      /\ RolledOf(log', x) = RolledOf(log, x)
      /\ log' # log => IntentsOf(log', x) = IntentsOf(log, x) \cup {s}
  BY <1>t, <1>2, AppendElsewhere
<1>4. PICK n \in Nat : IntentsOf(log, x) = 1 .. n /\ todo[th] = n + 1 .. Len(req[x])
  BY <1>t, <1>1 DEF SerialInv, RestoreInv, NumberedOf
<1>5. s = n + 1
  BY <1>t, <1>1, <1>4, NextOfInterval
<1>6. log' # log => IntentsOf(log', x) = 1 .. n + 1
  <2>1. (1 .. n) \cup {n + 1} = 1 .. n + 1
    OBVIOUS
  <2>2. QED
    BY <1>3, <1>4, <1>5, <2>1
<1>7. NumberedOf(x)'
  <2>1. CASE log' = log
    <3>1. IntentsOf(log', x) = 1 .. n
      BY <1>4, <2>1
    <3>2. pc'[th] = "intent" => log' # log
      <4>1. log \in Seq(Record) /\ tail = "whole" /\ [tx |-> x, seq |-> s, type |-> "INTENT"] \in Record
        BY <1>t DEF SerialInv, IInv, TypeOK, ApplyInv, Record
      <4>2. Appended(x, s, "INTENT") # log
        BY <4>1 DEF Appended
      <4>3. QED
        BY <1>2, <4>2
    <3>3. QED
      BY <1>1, <2>1, <3>1, <3>2 DEF NumberedOf, OneAtATime
  <2>2. CASE log' # log
    <3>1. IntentsOf(log', x) = 1 .. n + 1 /\ n + 1 \in Nat
      BY <1>6, <2>2
    <3>2. pc'[th] = "intent" => todo'[th] = n + 2 .. Len(req[x])
      <4>1. (n + 1 .. Len(req[x])) \ {n + 1} = n + 2 .. Len(req[x])
        BY <1>t
      <4>2. pc'[th] = "intent" => todo'[th] = todo[th] \ {s}
        BY <1>2
      <4>3. QED
        BY <1>4, <1>5, <4>1, <4>2
    <3>3. QED
      BY <1>1, <3>1, <3>2 DEF NumberedOf, OneAtATime
  <2>3. QED
    BY <2>1, <2>2
<1>8. ASSUME x \notin impure PROVE Restorable(x)'
  <2>1. PICK m \in Nat :
          /\ moved[x] = 1 .. m /\ moved[x] \subseteq IntentsOf(log, x) /\ Applying(th, m)
    <3>1. RestoreInv /\ pc[th] \in {"intent", "read"} \cup Working
      BY <1>1 DEF SerialInv
    <3>2. QED
      BY <1>t, <1>1, <1>8, <3>1, AtWork
  <2>2. m = 0 /\ RolledOf(log, x) = {} /\ Stands(x, m, m)
    BY <1>1, <2>1 DEF Applying
  <2>3. Stands(x, m, m)'
    BY <1>1, <2>2 DEF Stands
  <2>4. AtRest(x, m)'
    BY <1>1, <1>3, <2>2, <2>3 DEF AtRest
  <2>5. pc'[th] \in {"intent", "read"} => Applying(th, m)'
    BY <1>1, <1>3, <2>2, <2>3 DEF Applying
  <2>6. moved'[x] = 1 .. m /\ moved'[x] \subseteq IntentsOf(log', x)
    BY <1>1, <1>3, <2>1
  <2>7. \A u \in Threads : At(u, x)' => u = th /\ pc'[th] \in {"intent", "read"}
    BY <1>2 DEF At, OneAtATime, Working
  <2>8. QED
    BY <1>1, <2>4, <2>5, <2>6, <2>7 DEF Restorable
<1>9. ASSUME NEW t \in Tx \ {x}
      PROVE  /\ ~At(th, t)'
             /\ IntentsOf(log', t) = IntentsOf(log, t) /\ req'[t] = req[t]
             /\ t \in impure' \/ (t \notin impure /\ Frame(t))
  BY <1>1, <1>3 DEF At, Frame
<1>10. QED
  BY <1>t, <1>1, <1>7, <1>8, <1>9, StepRestores DEF SerialInv

\* The loop of apply_tx starts with every operation to visit.
LEMMA ReadRestores ==
  ASSUME OneAtATime, ~TornWrites, SerialInv, NEW th \in Threads, ReadIntents(th)
  PROVE  RestoreInv'
<1> DEFINE x == cur[th]
<1>f. /\ pc \in [Threads -> PCs] /\ todo \in [Threads -> SUBSET Nat]
      /\ cur \in [Threads -> Tx] /\ job \in [Threads -> Jobs]
      /\ req \in [Tx -> Seq(Op)]
  BY DEF SerialInv, IInv, TypeOK
<1>1. /\ pc[th] = "read" /\ x \in Tx
      /\ UNCHANGED <<fs, log, req, job, cur, moved, base, impure>>
  BY <1>f DEF ReadIntents, sys, hist
<1>2. job[th] = "create"
  BY <1>1 DEF SerialInv, UndoInv, UndoLocal
<1>3. \A t \in Tx : Frame(t)
  BY <1>1 DEF Frame
<1>4. CASE Intents(x) = {}
  <2>1. pc'[th] \in {"idle", "next"}
    BY <1>f, <1>4 DEF ReadIntents, Finish, Goto
  <2>2. \A u \in Threads : pc'[u] \notin {"intent", "read"} \cup Working
    BY <2>1 DEF OneAtATime, Working
  <2>3. QED
    BY <1>1, <1>3, <2>2, LeaveRestores DEF SerialInv
<1>5. CASE Intents(x) # {}
  <2>1. todo'[th] = Intents(x) /\ pc'[th] = "check"
    BY <1>f, <1>5 DEF ReadIntents, Goto
  <2>2. Intents(x) = DOMAIN req[x]
    <3>1. Intents(x) \subseteq DOMAIN req[x]
      BY DEF SerialInv, IInv, RequestInv, Intents, IntentTypes
    <3>2. Whole(th)
      BY <1>1, <1>2 DEF SerialInv, ApplyInv, Local, Creating
    <3>3. DOMAIN req[x] \subseteq Intents(x)
      BY <1>1, <3>2 DEF Whole, Intents, IntentsOf
    <3>4. QED
      BY <3>1, <3>3
  <2>3. DOMAIN req[x] = 1 .. Len(req[x])
    BY <1>f, <1>1
  <2>4. NumberedOf(x)'
    <3>1. PICK n \in Nat : IntentsOf(log, x) = 1 .. n
      BY <1>1 DEF SerialInv, RestoreInv, NumberedOf
    <3>2. QED
      BY <1>1, <2>1, <3>1 DEF NumberedOf, OneAtATime
  <2>5. ASSUME x \notin impure PROVE Restorable(x)'
    <3>1. PICK m \in Nat :
            /\ moved[x] = 1 .. m /\ moved[x] \subseteq IntentsOf(log, x)
            /\ AtRest(x, m) /\ Applying(th, m)
      BY <1>1, <1>2, <2>5, AtWork DEF SerialInv
    <3>2. m = 0 /\ RolledOf(log, x) = {} /\ Stands(x, m, m)
      BY <1>1, <3>1 DEF Applying
    <3>3. Stands(x, m, m)' /\ AtRest(x, m)'
      BY <1>1, <1>3, <3>1, <3>2, Framed
    <3>4. todo'[th] = m + 1 .. Len(req'[x])
      BY <1>1, <2>1, <2>2, <2>3, <3>2
    <3>5. Applying(th, m)'
      BY <1>1, <2>1, <3>2, <3>3, <3>4 DEF Applying
    <3>6. moved'[x] = 1 .. m /\ moved'[x] \subseteq IntentsOf(log', x)
      BY <1>1, <3>1
    <3>7. QED
      BY <1>1, <1>2, <3>3, <3>5, <3>6 DEF Restorable, OneAtATime
  <2>6. ASSUME NEW t \in Tx \ {x}
        PROVE  /\ ~At(th, t)'
               /\ IntentsOf(log', t) = IntentsOf(log, t) /\ req'[t] = req[t]
               /\ t \in impure' \/ (t \notin impure /\ Frame(t))
    BY <1>1, <1>3 DEF At
  <2>7. QED
    BY <1>1, <2>4, <2>5, <2>6, StepRestores DEF SerialInv
<1>6. QED
  BY <1>4, <1>5

\* A thread in the loop of _rollback_tx visits the last operation that is left.
LEMMA UndoNext ==
  ASSUME SerialInv, NEW th \in Threads, NEW s \in todo[th], IsNext(th, s), NEW m \in Nat,
         pc[th] \in Working \ {"log_err"}, job[th] # "create", Undoing(th, m)
  PROVE  /\ todo[th] = 1 .. s /\ s >= 1 /\ s \in IntentsOf(log, cur[th])
         /\ s \notin RolledOf(log, cur[th])
         /\ \A u \in 1 .. s : u \notin RolledOf(log, cur[th])
         /\ \A u \in IntentsOf(log, cur[th]) : u <= s \/ u \in RolledOf(log, cur[th])
         /\ pc[th] = "check" =>
              \/ Stands(cur[th], m, Lesser(s, m))
              \/ m # 0 /\ m = s /\ Stands(cur[th], m, m - 1)
         /\ pc[th] \in {"move", "touch"} => Stands(cur[th], m, Lesser(s, m))
         /\ pc[th] = "move" => Exists(OpOf(th, s).src)
         /\ pc[th] = "log_ok" => Stands(cur[th], m, Lesser(s - 1, m))
<1>1. PICK z \in Nat :
        /\ todo[th] = 1 .. z
        /\ \A u \in IntentsOf(log, cur[th]) : u <= z \/ u \in RolledOf(log, cur[th])
        /\ pc[th] = "check" =>
             \/ Stands(cur[th], m, Lesser(z, m))
             \/ m # 0 /\ m = z /\ Stands(cur[th], m, m - 1)
        /\ pc[th] \in {"move", "touch"} => Stands(cur[th], m, Lesser(z, m))
        /\ pc[th] = "move" => Exists(OpOf(th, z).src)
        /\ pc[th] = "log_ok" => Stands(cur[th], m, Lesser(z - 1, m))
  BY DEF Undoing
<1>2. s = z
  BY <1>1, NextOfInterval
<1>3. s \in 1 .. z /\ s >= 1
  BY <1>1
<1>4. todo[th] \subseteq IntentsOf(log, cur[th])
  BY WholeKnown DEF SerialInv, IInv, TypeOK, LoopInv, Working
<1>5. \A u \in todo[th] : u \notin RolledOf(log, cur[th])
  <2>1. \A u \in todo[th] : ~Logged(cur[th], u, "ROLLED_BACK")
    BY DEF SerialInv, UndoInv, UndoLocal
  <2>2. log \in Seq(Record) /\ cur[th] \in Tx
    BY DEF SerialInv, IInv, TypeOK
  <2>3. QED
    BY <2>1, <2>2, RolledLogged
<1>6. QED
  BY <1>1, <1>2, <1>3, <1>4, <1>5

\* A thread in the loop of apply_tx visits the first operation that is left.
LEMMA ApplyNext ==
  ASSUME SerialInv, NEW th \in Threads, NEW s \in todo[th], IsNext(th, s), NEW m \in Nat,
         pc[th] \in {"check", "move", "touch", "log_ok"}, job[th] = "create", Applying(th, m)
  PROVE  IF pc[th] = "log_ok" THEN s = m /\ m # 0 ELSE s = m + 1
<1>1. Len(req[cur[th]]) \in Nat
  BY DEF SerialInv, IInv, TypeOK
<1>2. CASE pc[th] = "log_ok"
  <2>1. todo[th] = m .. Len(req[cur[th]]) /\ m # 0
    BY <1>2 DEF Applying
  <2>2. QED
    BY <1>1, <1>2, <2>1, NextOfInterval
<1>3. CASE pc[th] # "log_ok"
  <2>1. todo[th] = m + 1 .. Len(req[cur[th]]) /\ m + 1 \in Nat
    BY <1>3 DEF Applying
  <2>2. QED
    BY <1>1, <1>3, <2>1, NextOfInterval
<1>4. QED
  BY <1>2, <1>3

\* The operation that is undone is the inverse of one that was posted.
LEMMA UndoneOp ==
  ASSUME SerialInv, NEW th \in Threads, NEW s \in todo[th], job[th] # "create"
  PROVE  req[cur[th]][s] \in Op /\ OpOf(th, s) = Inverse(req[cur[th]][s])
<1>1. req[cur[th]] \in Seq(Op) /\ s \in DOMAIN req[cur[th]]
  BY DEF SerialInv, IInv, TypeOK, RequestInv
<1>2. QED
  BY <1>1 DEF OpOf

\* What a rollback finds of the operation it visits: the move, if it was made and is
\* still to be undone, is possible; undone before, it is passed over.
LEMMA UndoDecides ==
  ASSUME SerialInv, NEW th \in Threads, NEW s \in todo[th], job[th] # "create", s >= 1,
         NEW m \in Nat
  PROVE  /\ s <= m /\ Stands(cur[th], m, s) => Decide(OpOf(th, s)) = "move"
         /\ s <= m /\ Stands(cur[th], m, s - 1) => Decide(OpOf(th, s)) = "noop"
<1>1. fs \in Files /\ s \in Nat
  BY DEF SerialInv, IInv, TypeOK, Files
<1>2. req[cur[th]][s] \in Op /\ OpOf(th, s) = Inverse(req[cur[th]][s])
  BY UndoneOp
<1>3. ASSUME s <= m, Stands(cur[th], m, s) PROVE Decide(OpOf(th, s)) = "move"
  <2>1. s \in 1 .. m
    BY <1>1, <1>3
  <2>2. PICK e \in Files : MovedBy(e, fs, req[cur[th]][s])
    BY <1>3, <2>1, ChainBack DEF Stands
  <2>3. QED
    BY <1>1, <1>2, <2>2, InverseDecides
<1>4. ASSUME s <= m, Stands(cur[th], m, s - 1) PROVE Decide(OpOf(th, s)) = "noop"
  <2>1. s \in 1 .. m
    BY <1>1, <1>4
  <2>2. PICK g \in Files : MovedBy(fs, g, req[cur[th]][s])
    BY <1>4, <2>1, ChainNext DEF Stands
  <2>3. QED
    BY <1>1, <1>2, <2>2, InverseDecides
<1>5. QED
  BY <1>3, <1>4

\* A step of a working thread that leaves the files and the log alone restores, if
\* it does so where it goes.
LEMMA QuietRestores ==
  ASSUME OneAtATime, SerialInv, NEW th \in Threads, pc[th] \in Working, cur[th] \in Tx,
         UNCHANGED <<fs, log, req, job, cur, moved, base>>, impure \subseteq impure',
         pc'[th] # "intent",
         ASSUME NEW m \in Nat, cur[th] \notin impure',
                moved[cur[th]] = 1 .. m, AtRest(cur[th], m),
                IF job[th] = "create" THEN Applying(th, m) ELSE Undoing(th, m),
                pc'[th] \in {"read"} \cup Working
         PROVE  IF job[th] = "create" THEN Applying(th, m)' ELSE Undoing(th, m)'
  PROVE  RestoreInv'
<1> DEFINE x == cur[th]
<1>1. \A t \in Tx : Frame(t)
  BY DEF Frame
<1>2. ASSUME x \notin impure' PROVE Restorable(x)'
  <2>1. RestoreInv /\ pc[th] \in {"intent", "read"} \cup Working /\ x \notin impure
    BY <1>2 DEF SerialInv
  <2>2. PICK m \in Nat :
          /\ moved[x] = 1 .. m /\ moved[x] \subseteq IntentsOf(log, x)
          /\ AtRest(x, m)
          /\ IF job[th] = "create" THEN Applying(th, m) ELSE Undoing(th, m)
    BY <2>1, AtWork
  <2>3. moved'[x] = 1 .. m /\ moved'[x] \subseteq IntentsOf(log', x)
    BY <2>2
  <2>4. AtRest(x, m)'
    <3>1. \A t \in Tx : t = cur[th] => (AtRest(t, m) => AtRest(t, m)')
      BY <1>1, Framed
    <3>2. QED
      BY <2>2, <3>1
  <2>5. pc'[th] \in {"read"} \cup Working =>
          IF job[th] = "create" THEN Applying(th, m)' ELSE Undoing(th, m)'
    BY <1>2, <2>2
  <2>6. \A u \in Threads : At(u, x)' => u = th /\ pc'[th] \in {"read"} \cup Working
    BY DEF At, OneAtATime
  <2>7. QED
    BY <2>3, <2>4, <2>5, <2>6 DEF Restorable
<1>3. NumberedOf(x)'
  <2>1. PICK n \in Nat : IntentsOf(log, x) = 1 .. n
    BY DEF SerialInv, RestoreInv, NumberedOf
  <2>2. QED
    BY <2>1 DEF NumberedOf, OneAtATime
<1>4. ASSUME NEW t \in Tx \ {x}
      PROVE  /\ ~At(th, t)'
             /\ IntentsOf(log', t) = IntentsOf(log, t) /\ req'[t] = req[t]
             /\ t \in impure' \/ (t \notin impure /\ Frame(t))
  BY <1>1 DEF At
<1>5. QED
  BY <1>2, <1>3, <1>4, StepRestores DEF SerialInv

\* What apply tests lets a rollback go wrong with no operation that was moved.
LEMMA CheckRestores ==
  ASSUME OneAtATime, SerialInv, NEW th \in Threads, NEW s \in todo[th], Check(th, s)
  PROVE  RestoreInv'
<1> DEFINE x == cur[th]
           d == Decide(OpOf(th, s))
<1>f. pc \in [Threads -> PCs] /\ x \in Tx /\ s \in Nat
  BY DEF SerialInv, IInv, TypeOK
<1>1. /\ pc[th] = "check" /\ IsNext(th, s)
      /\ UNCHANGED <<fs, log, req, job, cur, todo, moved, base>>
      /\ impure' = IF d = "noop" /\ job[th] = "create" THEN impure \cup {x} ELSE impure
      /\ pc'[th] = CASE d = "noop" -> "log_ok" [] d = "fail" -> "log_err" [] OTHER -> d
  BY <1>f DEF Check, Goto, sys
<1>2. d \in {"move", "noop", "touch", "fail"}
  <2>1. OpOf(th, s).kind \in Kinds
    BY OpOfType DEF SerialInv, IInv, Op
  <2>2. QED
    BY <2>1 DEF Decide, Kinds
<1>3. ASSUME NEW m \in Nat, x \notin impure', job[th] = "create", Applying(th, m)
      PROVE  Applying(th, m)'
  <2>1. s = m + 1
    BY <1>1, <1>3, ApplyNext
  <2>2. pc'[th] \in {"move", "touch", "log_err"} /\ (pc'[th] = "move" => d = "move")
    BY <1>1, <1>2, <1>3
  <2>3. Stands(x, m, m)' /\ RolledOf(log', x) = {}
    BY <1>1, <1>3 DEF Applying, Stands
  <2>4. todo'[th] = m + 1 .. Len(req'[x])
    BY <1>1, <1>3 DEF Applying
  <2>5. Decide(OpOf(th, m + 1))' = Decide(OpOf(th, m + 1))
    BY <1>1 DEF Decide, OpOf, Exists
  <2>6. QED
    BY <1>1, <2>1, <2>2, <2>3, <2>4, <2>5 DEF Applying
<1>4. ASSUME NEW m \in Nat, x \notin impure', job[th] # "create", Undoing(th, m)
      PROVE  Undoing(th, m)'
  <2>1. /\ todo[th] = 1 .. s /\ s >= 1 /\ s \in Nat
        /\ \A u \in IntentsOf(log, x) : u <= s \/ u \in RolledOf(log, x)
        /\ Stands(x, m, Lesser(s, m)) \/ (m # 0 /\ m = s /\ Stands(x, m, m - 1))
    BY <1>f, <1>1, <1>4, UndoNext DEF Working
  <2>2. \A k : Stands(x, m, k)' <=> Stands(x, m, k)
    BY <1>1 DEF Stands
  <2>3. d # "noop" => Stands(x, m, Lesser(s, m))
    <3>1. s <= s /\ (m = s => m - 1 = s - 1)
      BY <2>1
    <3>2. m = s /\ Stands(x, m, m - 1) => d = "noop"
      BY <1>4, <2>1, <3>1, UndoDecides
    <3>3. QED
      BY <2>1, <3>2
  <2>4. d = "noop" => Stands(x, m, Lesser(s - 1, m))
    <3>1. CASE s <= m /\ Stands(x, m, Lesser(s, m))
      <4>1. Lesser(s, m) = s
        BY <3>1 DEF Lesser
      <4>2. d = "move"
        BY <1>4, <2>1, <3>1, <4>1, UndoDecides
      <4>3. QED
        BY <4>2
    <3>2. CASE ~(s <= m) /\ Stands(x, m, Lesser(s, m))
      <4>1. Lesser(s, m) = m /\ Lesser(s - 1, m) = m
        BY <2>1, <3>2 DEF Lesser
      <4>2. QED
        BY <3>2, <4>1
    <3>3. CASE m = s /\ Stands(x, m, m - 1)
      <4>1. Lesser(s - 1, m) = m - 1
        BY <2>1, <3>3 DEF Lesser
      <4>2. QED
        BY <3>3, <4>1
    <3>4. QED
      BY <2>1, <3>1, <3>2, <3>3
  <2>5. d = "move" => Exists(OpOf(th, s).src)'
    <3>1. d = "move" => Exists(OpOf(th, s).src)
      <4>1. OpOf(th, s).kind \in {"rename", "enable", "disable"}
        BY OpOfType DEF SerialInv, IInv, Op, Kinds
      <4>2. QED
        BY <4>1 DEF Decide
    <3>2. QED
      BY <1>1, <3>1 DEF Exists, OpOf
  <2>6. QED
    <3>1. pc'[th] \in {"move", "touch", "log_ok", "log_err"}
          /\ (pc'[th] = "move" => d = "move") /\ (pc'[th] = "log_ok" => d = "noop")
          /\ (pc'[th] \in {"move", "touch"} => d # "noop")
      BY <1>1, <1>2
    <3>2. todo'[th] = 1 .. s /\ \A u \in IntentsOf(log, x)' : u <= s \/ u \in RolledOf(log, x)'
      BY <1>1, <2>1
    <3>3. /\ pc'[th] # "check"
          /\ pc'[th] \in {"move", "touch"} => Stands(x, m, Lesser(s, m))'
          /\ pc'[th] = "move" => Exists(OpOf(th, s).src)'
          /\ pc'[th] = "log_ok" => Stands(x, m, Lesser(s - 1, m))'
      BY <1>1, <2>2, <2>3, <2>4, <2>5, <3>1 DEF Lesser
    <3>4. QED
      BY <2>1, <3>2, <3>3 DEF Undoing
<1>5. pc[th] \in Working /\ impure \subseteq impure' /\ pc'[th] # "intent"
  BY <1>1, <1>2 DEF Working
<1>6. QED
  BY <1>f, <1>1, <1>3, <1>4, <1>5, QuietRestores

\* A file is moved by the operation at hand: forward to a free path, or back to where
\* it came from; every other move spoils the undo.
LEMMA MoveRestores ==
  ASSUME OneAtATime, SerialInv, NEW th \in Threads, NEW s \in todo[th], Move(th, s)
  PROVE  RestoreInv'
<1> DEFINE x == cur[th]
           op == OpOf(th, s)
           o == req[cur[th]][s]
<1>f. /\ pc \in [Threads -> PCs] /\ x \in Tx /\ s \in Nat /\ fs \in Files
      /\ moved \in [Tx -> SUBSET Nat]
  BY DEF SerialInv, IInv, TypeOK, Files
<1>o. op \in Op
  BY OpOfType DEF SerialInv, IInv
<1>1. /\ pc[th] = "move" /\ IsNext(th, s) /\ Exists(op.src) /\ pc'[th] = "log_ok"
      /\ fs' = [fs EXCEPT ![op.dst] = fs[op.src], ![op.src] = None]
      /\ Recorded(th, s, ~Exists(op.dst))
      /\ UNCHANGED <<log, req, job, cur, todo, base>>
  BY <1>f DEF Move, Goto
<1>2. /\ Tx \ {x} \subseteq impure' /\ impure \subseteq impure'
      /\ x \notin impure' => ~Exists(op.dst) /\ s \in moved'[x]
      /\ moved'[x] = IF job[th] = "create" THEN moved[x] \cup {s} ELSE moved[x]
  BY <1>f, <1>1 DEF Recorded
<1>3. fs' \in Files
  <2>1. op.src \in Path /\ op.dst \in Path
    BY <1>o DEF Op
  <2>2. fs \in [Path -> Content \cup {None, Blank}]
    BY <1>f DEF Files
  <2>3. fs' \in [Path -> Content \cup {None, Blank}]
    BY <1>1, <2>1, <2>2
  <2>4. QED
    BY <2>3 DEF Files
<1>i. s \in IntentsOf(log, x)
  BY <1>1, <1>f, WholeKnown DEF SerialInv, IInv, LoopInv, Working
<1>4. ASSUME x \notin impure' PROVE Restorable(x)'
  <2>1. RestoreInv /\ pc[th] \in {"intent", "read"} \cup Working /\ x \notin impure
    BY <1>1, <1>2, <1>4 DEF SerialInv, Working
  <2>2. PICK m \in Nat :
          /\ moved[x] = 1 .. m /\ moved[x] \subseteq IntentsOf(log, x)
          /\ AtRest(x, m)
          /\ IF job[th] = "create" THEN Applying(th, m) ELSE Undoing(th, m)
    BY <1>f, <2>1, AtWork
  <2>3. CASE job[th] = "create"
    <3>1. Applying(th, m) /\ s = m + 1
      BY <1>1, <2>2, <2>3, ApplyNext
    <3>2. /\ Stands(x, m, m) /\ RolledOf(log, x) = {} /\ Decide(op) = "move"
          /\ todo[th] = m + 1 .. Len(req[x])
      BY <1>1, <3>1 DEF Applying
    <3>3. MovedBy(fs, fs', o)
      <4>1. op = o
        BY <2>3 DEF OpOf
      <4>2. op.kind = "rename" => {op.src, op.dst} \subseteq Allowed
        BY <3>2 DEF Decide
      <4>3. QED
        BY <1>1, <1>2, <1>4, <4>1, <4>2 DEF MovedBy, Exists
    <3>4. Chain(base[x], fs', req[x], m + 1, m + 1)
      BY <1>3, <3>1, <3>2, <3>3, ChainGrows DEF Stands
    <3>5. Stands(x, m + 1, m + 1)'
      BY <1>1, <3>4 DEF Stands
    <3>6. AtRest(x, m + 1)'
      BY <1>1, <3>2, <3>5 DEF AtRest
    <3>7. Applying(th, m + 1)'
      BY <1>1, <3>2, <3>5 DEF Applying
    <3>8. moved'[x] = 1 .. m + 1 /\ m + 1 \in Nat
      BY <1>2, <2>2, <2>3, <3>1
    <3>9. moved'[x] \subseteq IntentsOf(log', x)
      BY <1>1, <1>2, <1>i, <2>2, <2>3
    <3>10. QED
      BY <1>1, <2>3, <3>6, <3>7, <3>8, <3>9 DEF Restorable, OneAtATime
  <2>4. CASE job[th] # "create"
    <3>1. /\ todo[th] = 1 .. s /\ s >= 1
          /\ \A u \in 1 .. s : u \notin RolledOf(log, x)
          /\ \A u \in IntentsOf(log, x) : u <= s \/ u \in RolledOf(log, x)
          /\ Stands(x, m, Lesser(s, m))
      BY <1>1, <2>2, <2>4, UndoNext DEF Working
    <3>2. s \in 1 .. m /\ moved'[x] = 1 .. m
      BY <1>2, <1>4, <2>2, <2>4
    <3>3. Stands(x, m, s)
      BY <3>1, <3>2 DEF Lesser
    <3>4. PICK e \in Files : MovedBy(e, fs, o) /\ Chain(base[x], e, req[x], m, s - 1)
      BY <3>2, <3>3, ChainBack DEF Stands
    <3>5. o \in Op /\ op = Inverse(o)
      BY <2>4, UndoneOp
    <3>6. e = [fs EXCEPT ![o.src] = fs[o.dst], ![o.dst] = None]
      BY <1>f, <3>4, <3>5, MoveBack
    <3>7. op.dst = o.src /\ op.src = o.dst
      BY <3>5 DEF Inverse
    <3>8. fs' = e
      BY <1>1, <3>6, <3>7
    <3>9. Stands(x, m, s - 1)'
      BY <1>1, <3>4, <3>8 DEF Stands
    <3>10. AtRest(x, m)'
      <4>1. ASSUME RolledOf(log, x) = {}
            PROVE  m = s /\ \A u \in IntentsOf(log, x) : u <= m
        <5>1. \A u \in IntentsOf(log, x) : u <= s
          BY <3>1, <4>1
        <5>2. m \in IntentsOf(log, x)
          BY <2>2, <3>2
        <5>3. m <= s /\ s <= m
          BY <3>2, <5>1, <5>2
        <5>4. m = s
          BY <1>f, <3>2, <5>3
        <5>5. QED
          BY <5>1, <5>4
      <4>2. ~(IntentsOf(log, x) \subseteq RolledOf(log, x))
        BY <1>i, <3>1, <1>f
      <4>3. RolledOf(log, x) = {} => m # 0 /\ Stands(x, m, m - 1)'
        BY <3>2, <3>9, <4>1
      <4>4. QED
        BY <1>1, <4>1, <4>2, <4>3 DEF AtRest
    <3>11. Undoing(th, m)'
      <4>1. Lesser(s - 1, m) = s - 1
        BY <3>2 DEF Lesser
      <4>2. Stands(x, m, Lesser(s - 1, m))'
        BY <1>1, <3>9, <4>1 DEF Lesser
      <4>3. QED
        BY <1>f, <1>1, <3>1, <4>2 DEF Undoing
    <3>12. moved'[x] \subseteq IntentsOf(log', x)
      BY <1>1, <1>2, <2>2, <2>4
    <3>13. QED
      BY <1>1, <2>4, <3>2, <3>10, <3>11, <3>12 DEF Restorable, OneAtATime
  <2>5. QED
    BY <2>3, <2>4
<1>5. NumberedOf(x)'
  <2>1. PICK n \in Nat : IntentsOf(log, x) = 1 .. n
    BY <1>f DEF SerialInv, RestoreInv, NumberedOf
  <2>2. QED
    BY <1>1, <2>1 DEF NumberedOf, OneAtATime
<1>6. ASSUME NEW t \in Tx \ {x}
      PROVE  /\ ~At(th, t)'
             /\ IntentsOf(log', t) = IntentsOf(log, t) /\ req'[t] = req[t]
             /\ t \in impure' \/ (t \notin impure /\ Frame(t))
  BY <1>1, <1>2 DEF At
<1>7. QED
  BY <1>f, <1>1, <1>4, <1>5, <1>6, StepRestores DEF SerialInv

\* Between test and move nothing changes, so no pure operation finds its file gone.
LEMMA MissingRestores ==
  ASSUME OneAtATime, SerialInv, NEW th \in Threads, NEW s \in todo[th], MoveMissing(th, s)
  PROVE  RestoreInv'
<1> DEFINE x == cur[th]
<1>f. pc \in [Threads -> PCs] /\ x \in Tx /\ s \in Nat
  BY DEF SerialInv, IInv, TypeOK
<1>1. /\ pc[th] = "move" /\ IsNext(th, s) /\ ~Exists(OpOf(th, s).src)
      /\ pc'[th] \in {"log_ok", "log_err"}
      /\ UNCHANGED <<fs, log, req, job, cur, todo, moved, base, impure>>
  BY <1>f DEF MoveMissing, Goto, sys, hist
<1>2. ASSUME NEW m \in Nat, IF job[th] = "create" THEN Applying(th, m) ELSE Undoing(th, m)
      PROVE  FALSE
  <2>1. CASE job[th] = "create"
    <3>1. s = m + 1
      BY <1>1, <1>2, <2>1, ApplyNext
    <3>2. Decide(OpOf(th, s)) = "move"
      BY <1>1, <1>2, <2>1, <3>1 DEF Applying
    <3>3. OpOf(th, s).kind \in {"rename", "enable", "disable"}
      BY OpOfType DEF SerialInv, IInv, Op, Kinds
    <3>4. QED
      BY <1>1, <3>2, <3>3 DEF Decide
  <2>2. CASE job[th] # "create"
    BY <1>1, <1>2, <2>2, UndoNext DEF Working
  <2>3. QED
    BY <2>1, <2>2
<1>3. pc[th] \in Working /\ impure \subseteq impure' /\ pc'[th] # "intent"
  BY <1>1 DEF Working
<1>4. QED
  BY <1>f, <1>1, <1>2, <1>3, QuietRestores

\* The end of a round of the loop: what the record says has been done.
LEMMA LogRestores ==
  ASSUME OneAtATime, ~TornWrites, SerialInv, NEW th \in Threads, NEW s \in todo[th],
         \/ LogOutcome(th, s)
         \/ AppendError(th, s) /\ pc[th] = "log_ok"
  PROVE  RestoreInv'
<1> DEFINE x == cur[th]
<1>f. /\ pc \in [Threads -> PCs] /\ todo \in [Threads -> SUBSET Nat]
      /\ x \in Tx /\ s \in Nat /\ req \in [Tx -> Seq(Op)]
  BY DEF SerialInv, IInv, TypeOK
<1>t. Len(req[x]) \in Nat
  BY <1>f
<1>1. /\ pc[th] = "log_ok" /\ IsNext(th, s)
      /\ UNCHANGED <<fs, req, job, cur, moved, base, impure>>
  BY DEF LogOutcome, AppendError, hist
<1>2. \/ /\ LogOutcome(th, s) /\ log' = Appended(x, s, RecordType(th))
         /\ IF todo[th] = {s} THEN pc'[th] \in {"idle", "next"}
            ELSE pc'[th] = "check" /\ todo'[th] = todo[th] \ {s}
      \/ /\ log' = log \/ log' = Appended(x, s, RecordType(th))
         /\ pc'[th] = "log_err"
  BY <1>f, <1>1 DEF LogOutcome, AppendError, Finish, Goto
<1>3. RecordType(th) = IF job[th] = "create" THEN "APPLIED" ELSE "ROLLED_BACK"
  BY <1>1 DEF RecordType
<1>4. /\ \A t \in Tx : IntentsOf(log', t) = IntentsOf(log, t)
      /\ \A t \in Tx \ {x} : RolledOf(log', t) = RolledOf(log, t)
      /\ job[th] = "create" => RolledOf(log', x) = RolledOf(log, x)
      /\ job[th] # "create" =>
           \/ log' = log /\ RolledOf(log', x) = RolledOf(log, x)
           \/ RolledOf(log', x) = RolledOf(log, x) \cup {s}
  <2>1. RecordType(th) \in Types /\ RecordType(th) # "INTENT"
    BY <1>3 DEF Types, Outcomes
  <2>2. QED
    BY <1>f, <1>2, <1>3, <2>1, AppendElsewhere
<1>5. LogOutcome(th, s) /\ job[th] # "create" => RolledOf(log', x) = RolledOf(log, x) \cup {s}
  <2>1. log \in Seq(Record) /\ tail = "whole"
    BY DEF SerialInv, IInv, TypeOK, ApplyInv
  <2>2. LogOutcome(th, s) => log' = Appended(x, s, RecordType(th))
    BY DEF LogOutcome
  <2>3. "ROLLED_BACK" \in Types
    BY DEF Types, Outcomes
  <2>4. QED
    BY <1>f, <1>3, <2>1, <2>2, <2>3, RolledAppend
<1>6. ASSUME x \notin impure PROVE Restorable(x)'
  <2>1. RestoreInv /\ pc[th] \in {"intent", "read"} \cup Working
    BY <1>1 DEF SerialInv, Working
  <2>2. PICK m \in Nat :
          /\ moved[x] = 1 .. m /\ moved[x] \subseteq IntentsOf(log, x)
          /\ AtRest(x, m)
          /\ IF job[th] = "create" THEN Applying(th, m) ELSE Undoing(th, m)
    BY <1>f, <1>6, <2>1, AtWork
  <2>3. moved'[x] = 1 .. m /\ moved'[x] \subseteq IntentsOf(log', x)
    BY <1>f, <1>1, <1>4, <2>2
  <2>4. \A k : Stands(x, m, k)' <=> Stands(x, m, k)
    BY <1>1 DEF Stands
  <2>5. pc'[th] \in {"check", "log_err", "idle", "next"}
    BY <1>2
  <2>6. CASE job[th] = "create"
    <3>1. /\ Applying(th, m) /\ s = m
      BY <1>1, <2>2, <2>6, ApplyNext
    <3>2. /\ RolledOf(log, x) = {} /\ Stands(x, m, m)
          /\ m # 0 /\ todo[th] = m .. Len(req[x])
      BY <1>1, <3>1 DEF Applying
    <3>3. AtRest(x, m)'
      BY <1>1, <1>4, <2>4, <2>6, <3>2 DEF AtRest
    <3>4. pc'[th] \in {"check", "log_err"} => Applying(th, m)'
      <4>1. (m .. Len(req[x])) \ {m} = m + 1 .. Len(req[x])
        BY <1>t
      <4>2. pc'[th] = "check" => todo'[th] = m + 1 .. Len(req'[x])
        BY <1>1, <1>2, <3>1, <3>2, <4>1
      <4>3. QED
        BY <1>1, <1>4, <2>4, <2>6, <3>2, <4>2 DEF Applying
    <3>5. QED
      BY <1>1, <2>3, <2>5, <2>6, <3>3, <3>4 DEF Restorable, OneAtATime, At, Working
  <2>7. CASE job[th] # "create"
    <3>1. /\ todo[th] = 1 .. s /\ s >= 1 /\ s \in IntentsOf(log, x)
          /\ \A u \in 1 .. s : u \notin RolledOf(log, x)
          /\ \A u \in IntentsOf(log, x) : u <= s \/ u \in RolledOf(log, x)
          /\ Stands(x, m, Lesser(s - 1, m))
      BY <1>1, <2>2, <2>7, UndoNext DEF Working
    <3>2. todo[th] \subseteq IntentsOf(log, x)
      BY <1>1, <1>f, WholeKnown DEF SerialInv, IInv, LoopInv, Working
    <3>3. CASE log' = log
      <4>1. AtRest(x, m)'
        BY <1>1, <2>2, <2>4, <3>3 DEF AtRest
      <4>2. pc'[th] # "check"
        <5>1. RolledOf(log, x) # RolledOf(log, x) \cup {s}
          BY <1>f, <3>1
        <5>2. ~LogOutcome(th, s)
          BY <1>5, <2>7, <3>3, <5>1
        <5>3. QED
          BY <1>2, <5>2
      <4>3. pc'[th] = "log_err" => Undoing(th, m)'
        BY DEF Undoing
      <4>4. QED
        BY <1>1, <2>3, <2>5, <2>7, <4>1, <4>2, <4>3 DEF Restorable, OneAtATime, At, Working
    <3>4. CASE RolledOf(log', x) = RolledOf(log, x) \cup {s}
      <4>1. AtRest(x, m)'
        <5>1. ASSUME IntentsOf(log, x) \subseteq RolledOf(log, x) \cup {s} PROVE fs = base[x]
          <6>1. s = 1
            <7>1. 1 \in 1 .. s /\ 1 \in RolledOf(log, x) \cup {s}
              BY <1>f, <3>1, <3>2, <5>1
            <7>2. QED
              BY <3>1, <7>1
          <6>2. Lesser(s - 1, m) = 0
            BY <6>1 DEF Lesser
          <6>3. Chain(base[x], fs, req[x], m, 0)
            BY <3>1, <6>2 DEF Stands
          <6>4. QED
            BY <6>3, ChainStart
        <5>2. s \in RolledOf(log', x)
          BY <3>4
        <5>3. QED
          BY <1>f, <1>1, <1>4, <3>4, <5>1, <5>2 DEF AtRest
      <4>2. pc'[th] = "check" => Undoing(th, m)'
        <5>1. s - 1 \in Nat /\ (1 .. s) \ {s} = 1 .. s - 1
          BY <1>f, <3>1
        <5>2. pc'[th] = "check" => todo'[th] = 1 .. s - 1
          BY <1>2, <3>1, <5>1
        <5>3. IntentsOf(log, x) \subseteq Nat
          BY <1>f DEF SerialInv, RestoreInv, NumberedOf
        <5>4. \A u \in IntentsOf(log', x) : u <= s - 1 \/ u \in RolledOf(log', x)
          BY <1>f, <1>4, <3>1, <3>4, <5>3
        <5>5. Stands(x, m, Lesser(s - 1, m))'
          BY <1>1, <2>4, <3>1 DEF Lesser
        <5>6. QED
          BY <1>1, <5>1, <5>2, <5>4, <5>5 DEF Undoing
      <4>3. pc'[th] = "log_err" => Undoing(th, m)'
        BY DEF Undoing
      <4>4. QED
        BY <1>1, <2>3, <2>5, <2>7, <4>1, <4>2, <4>3 DEF Restorable, OneAtATime, At, Working
    <3>5. QED
      BY <1>4, <2>7, <3>3, <3>4
  <2>8. QED
    BY <2>6, <2>7
<1>7. NumberedOf(x)'
  <2>1. PICK n \in Nat : IntentsOf(log, x) = 1 .. n
    BY <1>f DEF SerialInv, RestoreInv, NumberedOf
  <2>2. IntentsOf(log', x) = 1 .. n /\ pc'[th] # "intent"
    BY <1>f, <1>2, <1>4, <2>1
  <2>3. QED
    BY <1>1, <2>2 DEF NumberedOf, OneAtATime
<1>8. ASSUME NEW t \in Tx \ {x}
      PROVE  /\ ~At(th, t)'
             /\ IntentsOf(log', t) = IntentsOf(log, t) /\ req'[t] = req[t]
             /\ t \in impure' \/ (t \notin impure /\ Frame(t))
  BY <1>1, <1>4 DEF At, Frame
<1>9. QED
  BY <1>f, <1>1, <1>6, <1>7, <1>8, StepRestores DEF SerialInv

\* A file that is made is reversed by no move.
LEMMA TouchRestores ==
  ASSUME OneAtATime, SerialInv, NEW th \in Threads, NEW s \in todo[th], Touch(th, s)
  PROVE  RestoreInv'
<1> DEFINE x == cur[th]
<1>f. pc \in [Threads -> PCs] /\ x \in Tx
  BY DEF SerialInv, IInv, TypeOK
<1>1. UNCHANGED <<log, req, cur>> /\ pc'[th] = "log_ok"
  BY <1>f DEF Touch, Goto
<1>2. Tx \subseteq impure'
  BY <1>f DEF Touch, Recorded
<1>3. NumberedOf(x)'
  <2>1. PICK n \in Nat : IntentsOf(log, x) = 1 .. n
    BY <1>f DEF SerialInv, RestoreInv, NumberedOf
  <2>2. QED
    BY <1>1, <2>1 DEF NumberedOf, OneAtATime
<1>4. ASSUME NEW t \in Tx \ {x}
      PROVE  /\ ~At(th, t)'
             /\ IntentsOf(log', t) = IntentsOf(log, t) /\ req'[t] = req[t]
             /\ t \in impure' \/ (t \notin impure /\ Frame(t))
  BY <1>1, <1>2 DEF At
<1>5. QED
  BY <1>f, <1>1, <1>2, <1>3, <1>4, StepRestores DEF SerialInv

\* A loop that a failure ends leaves the transaction as far as it came.
LEMMA FailureRestores ==
  ASSUME OneAtATime, ~TornWrites, SerialInv, NEW th \in Threads, NEW s \in todo[th],
         \/ LogFailure(th, s)
         \/ AppendError(th, s) /\ pc[th] = "log_err"
  PROVE  RestoreInv'
<1>f. pc \in [Threads -> PCs] /\ cur[th] \in Tx /\ s \in Nat
  BY DEF SerialInv, IInv, TypeOK
<1>1. /\ UNCHANGED <<fs, req, moved, base, impure>>
      /\ log' = log \/ log' = Appended(cur[th], s, "FAILED")
      /\ pc'[th] \in {"idle", "next"}
  BY <1>f DEF LogFailure, AppendError, Finish, Goto, RecordType, hist
<1>2. \A t \in Tx : IntentsOf(log', t) = IntentsOf(log, t) /\ RolledOf(log', t) = RolledOf(log, t)
  <2>1. "FAILED" \in Types
    BY DEF Types, Outcomes
  <2>2. QED
    BY <1>f, <1>1, <2>1, AppendElsewhere
<1>3. \A t \in Tx : Frame(t)
  BY <1>1, <1>2 DEF Frame
<1>4. \A u \in Threads : pc'[u] \notin {"intent", "read"} \cup Working
  BY <1>1 DEF OneAtATime, Working
<1>5. QED
  BY <1>1, <1>3, <1>4, LeaveRestores DEF SerialInv

\* _rollback_tx begins where apply_tx, or an earlier pass that was cut, left off.
LEMMA UndoRestores ==
  ASSUME OneAtATime, SerialInv, NEW th \in Threads, NEW t \in Tx, ~Has(t, "ROLLED_BACK"),
         UNCHANGED <<fs, log, req, moved, base, impure>>,
         pc'[th] = "check", job'[th] # "create", cur'[th] = t, todo'[th] = Intents(t)
  PROVE  RestoreInv'
<1>1. log \in Seq(Record) /\ Intents(t) = IntentsOf(log, t)
  BY DEF SerialInv, IInv, TypeOK, Intents, IntentsOf
<1>2. \A u \in Tx : Frame(u)
  BY DEF Frame
<1>3. PICK n \in Nat : IntentsOf(log, t) = 1 .. n
  BY DEF SerialInv, RestoreInv, NumberedOf
<1>4. NumberedOf(t)'
  BY <1>3 DEF NumberedOf, OneAtATime
<1>5. ASSUME t \notin impure PROVE Restorable(t)'
  <2>1. PICK m \in Nat :
          moved[t] = 1 .. m /\ moved[t] \subseteq IntentsOf(log, t) /\ AtRest(t, m)
    BY <1>5 DEF SerialInv, RestoreInv, Restorable
  <2>2. RolledOf(log, t) = {}
    BY <1>1, RolledLogged
  <2>3. m <= n
    <3>1. 1 .. m \subseteq 1 .. n
      BY <1>3, <2>1
    <3>2. m = 0 \/ m \in 1 .. m
      BY <2>1
    <3>3. QED
      BY <1>3, <2>1, <3>1, <3>2
  <2>4. AtRest(t, m)'
    BY <1>2, <2>1, Framed
  <2>5. Stands(t, m, Lesser(n, m))' \/ (m # 0 /\ m = n /\ Stands(t, m, m - 1)')
    <3>1. Lesser(n, m) = m
      BY <1>3, <2>1, <2>3 DEF Lesser
    <3>2. CASE Stands(t, m, m)
      BY <1>2, <3>1, <3>2, Framed
    <3>3. CASE m # 0 /\ (\A u \in IntentsOf(log, t) : u <= m) /\ Stands(t, m, m - 1)
      <4>1. n \in 1 .. n
        BY <1>3, <2>1, <2>3, <3>3
      <4>2. m = n
        BY <1>3, <2>1, <2>3, <3>3, <4>1
      <4>3. Stands(t, m, m - 1)'
        BY <1>2, <3>3, Framed
      <4>4. QED
        BY <3>3, <4>2, <4>3
    <3>4. QED
      BY <2>1, <2>2, <3>2, <3>3 DEF AtRest
  <2>6. Undoing(th, m)'
    <3>1. \A u \in IntentsOf(log', t) : u <= n
      BY <1>3
    <3>2. QED
      BY <1>1, <1>3, <2>5, <3>1 DEF Undoing, Lesser
  <2>7. moved'[t] = 1 .. m /\ moved'[t] \subseteq IntentsOf(log', t)
    BY <2>1
  <2>8. QED
    BY <2>4, <2>6, <2>7 DEF Restorable, OneAtATime
<1>6. ASSUME NEW u \in Tx \ {t}
      PROVE  /\ ~At(th, u)'
             /\ IntentsOf(log', u) = IntentsOf(log, u) /\ req'[u] = req[u]
             /\ u \in impure' \/ (u \notin impure /\ Frame(u))
  BY <1>2 DEF At
<1>7. QED
  BY <1>4, <1>5, <1>6, StepRestores DEF SerialInv

\* Nothing is moved at first.
LEMMA InitRestore == Init => RestoreInv
<1> SUFFICES ASSUME Init PROVE RestoreInv
  OBVIOUS
<1>1. 1 .. 0 = {} /\ 0 \in Nat
  OBVIOUS
<1>2. \A t \in Tx : IntentsOf(log, t) = {} /\ RolledOf(log, t) = {} /\ moved[t] = {} /\ base[t] = fs
  BY DEF Init, IntentsOf, RolledOf
<1>3. \A th \in Threads : pc[th] = "idle"
  BY DEF Init
<1>4. ASSUME NEW t \in Tx PROVE NumberedOf(t)
  BY <1>1, <1>2, <1>3 DEF NumberedOf
<1>5. ASSUME NEW t \in Tx PROVE Restorable(t)
  <2>1. fs \in Files
    BY FsAssumption DEF Init, Files
  <2>2. Stands(t, 0, 0)
    BY <1>2, <2>1, ChainStart DEF Stands
  <2>3. AtRest(t, 0)
    BY <1>2, <2>2 DEF AtRest
  <2>4. \A th \in Threads : ~At(th, t)
    BY <1>3 DEF At, Working
  <2>5. moved[t] = 1 .. 0 /\ moved[t] \subseteq IntentsOf(log, t)
    BY <1>1, <1>2
  <2>6. QED
    BY <1>1, <2>3, <2>4, <2>5 DEF Restorable
<1>6. QED
  BY <1>4, <1>5 DEF RestoreInv

\* Each step of the one thread keeps every pure transaction restorable.
LEMMA NextRestore ==
  ASSUME OneAtATime, ~TornWrites
  PROVE  SerialInv /\ [Next]_vars => RestoreInv'
<1> SUFFICES ASSUME SerialInv, [Next]_vars PROVE RestoreInv'
  OBVIOUS
<1>f. /\ pc \in [Threads -> PCs] /\ cur \in [Threads -> Tx] /\ job \in [Threads -> Jobs]
      /\ todo \in [Threads -> SUBSET Nat] /\ pending \in [Threads -> SUBSET Tx]
  BY DEF SerialInv, IInv, TypeOK
<1>u. \A th \in Threads : UndoLocal(th)
  BY DEF SerialInv, UndoInv
\* A step that changes neither the files nor what is recorded, and stops all threads.
<1>q. ASSUME UNCHANGED <<fs, log, req, moved, base, impure>>,
             \A th \in Threads : pc'[th] \in {"idle", "next"}
      PROVE  RestoreInv'
  <2>1. \A t \in Tx : Frame(t)
    BY <1>q DEF Frame
  <2>2. \A th \in Threads : pc'[th] \notin {"intent", "read"} \cup Working
    BY <1>q DEF Working
  <2>3. QED
    BY <1>q, <2>1, <2>2, LeaveRestores DEF SerialInv
<1>1. ASSUME NEW th \in Threads, NEW t \in Tx, StartRollback(th, t) PROVE RestoreInv'
  <2>1. UNCHANGED <<fs, log, req, moved, base, impure>>
    BY <1>1 DEF StartRollback, sys, hist
  <2>2. /\ pc'[th] = "check" /\ job'[th] # "create" /\ cur'[th] = t
        /\ todo'[th] = Intents(t)
    BY <1>1, <1>f DEF StartRollback, Goto
  <2>3. ~Has(t, "ROLLED_BACK")
    BY <1>1, RolledBackState DEF StartRollback
  <2>4. QED
    BY <2>1, <2>2, <2>3, UndoRestores
<1>2. ASSUME NEW th \in Threads, StartRecover(th) PROVE RestoreInv'
  <2>1. UNCHANGED <<fs, log, req, moved, base, impure>> /\ pc'[th] = "next"
    BY <1>2, <1>f DEF StartRecover, Goto, sys, hist
  <2>2. QED
    BY <2>1, <1>q DEF OneAtATime
<1>3. ASSUME NEW th \in Threads, RecoverNext(th) PROVE RestoreInv'
  <2>1. UNCHANGED <<fs, log, req, moved, base, impure>> /\ pc[th] = "next" /\ job' = job
    BY <1>3 DEF RecoverNext, sys, hist
  <2>2. CASE pc'[th] = "idle"
    BY <2>1, <2>2, <1>q DEF OneAtATime
  <2>3. ASSUME NEW t \in pending[th],
               cur'[th] = t, todo'[th] = Intents(t), pc'[th] = "check"
        PROVE  RestoreInv'
    <3>1. t \in Tx
      BY <1>f, <2>3
    <3>2. ~Has(t, "ROLLED_BACK") /\ job'[th] # "create"
      BY <1>u, <2>1, <2>3 DEF UndoLocal
    <3>3. QED
      BY <2>1, <2>3, <3>1, <3>2, UndoRestores
  <2>4. \/ pc'[th] = "idle"
        \/ \E t \in pending[th] :
             cur'[th] = t /\ todo'[th] = Intents(t) /\ pc'[th] = "check"
    BY <1>3, <1>f DEF RecoverNext, Goto
  <2>5. QED
    BY <2>2, <2>3, <2>4
<1>4. ASSUME Crash PROVE RestoreInv'
  <2>1. UNCHANGED <<fs, log, req, moved, base, impure>>
        /\ \A th \in Threads : pc'[th] = "idle"
    BY <1>4 DEF Crash, hist
  <2>2. QED
    BY <2>1, <1>q
<1>5. ASSUME UNCHANGED vars PROVE RestoreInv'
  <2>1. UNCHANGED <<fs, log, req, pc, job, cur, todo, moved, base, impure>>
    BY <1>5 DEF vars, sys, thr, hist
  <2>2. \A t \in Tx : (NumberedOf(t) => NumberedOf(t)')
    BY <2>1 DEF NumberedOf
  <2>3. \A t, m, k : Stands(t, m, k)' <=> Stands(t, m, k)
    BY <2>1 DEF Stands
  <2>4. \A t, m : AtRest(t, m)' <=> AtRest(t, m)
    BY <2>1, <2>3 DEF AtRest
  <2>5. \A th, s : /\ Decide(OpOf(th, s))' = Decide(OpOf(th, s))
                   /\ Exists(OpOf(th, s).src)' <=> Exists(OpOf(th, s).src)
    BY <2>1 DEF Decide, OpOf, Exists
  <2>6. \A th, m : Applying(th, m) => Applying(th, m)'
    BY <2>1, <2>3, <2>5 DEF Applying
  <2>7. \A th, m : Undoing(th, m) => Undoing(th, m)'
    BY <2>1, <2>3, <2>5 DEF Undoing, Lesser
  <2>8. \A th, t : At(th, t)' => At(th, t)
    BY <2>1 DEF At
  <2>9. \A t : Restorable(t) => Restorable(t)'
    BY <2>1, <2>4, <2>6, <2>7, <2>8 DEF Restorable
  <2>10. QED
    BY <2>1, <2>2, <2>9 DEF SerialInv, RestoreInv
<1>8. ASSUME NEW th \in Threads, NEW s \in todo[th], MoveFails(th, s) PROVE RestoreInv'
  <2>1. /\ pc[th] \in Working /\ cur[th] \in Tx /\ pc'[th] = "log_err"
        /\ UNCHANGED <<fs, log, req, job, cur, todo, moved, base, impure>>
    BY <1>8, <1>f DEF MoveFails, Goto, Working, sys, hist
  <2>2. ASSUME NEW m \in Nat, job[th] = "create", Applying(th, m) PROVE Applying(th, m)'
    <3>1. Stands(cur[th], m, m)' <=> Stands(cur[th], m, m)
      BY <2>1 DEF Stands
    <3>2. QED
      BY <2>1, <2>2, <3>1 DEF Applying
  <2>3. \A m \in Nat : Undoing(th, m)'
    BY <2>1 DEF Undoing
  <2>4. QED
    BY <2>1, <2>2, <2>3, QuietRestores
<1>6. ASSUME NEW th \in Threads, NEW s \in todo[th], AppendError(th, s) PROVE RestoreInv'
  <2>1. pc[th] \in {"intent", "log_ok", "log_err"}
    BY <1>6 DEF AppendError
  <2>2. QED
    BY <1>6, <2>1, IntentRestores, LogRestores, FailureRestores
<1>7. ASSUME NEW th \in Threads, NEW s \in todo[th], Step(th, s) PROVE RestoreInv'
  BY <1>7, IntentRestores, CheckRestores, MoveRestores, MissingRestores, TouchRestores,
     LogRestores, FailureRestores DEF Step
<1>9. QED
  BY <1>1, <1>2, <1>3, <1>4, <1>5, <1>6, <1>7, <1>8, BeginRestores, ReadRestores
     DEF Next, Progress

\* A transaction whose operations are all logged as rolled back has given the
\* files back as they were when it began, for any number of operations, crashes,
\* failing appends and repeated calls, if requests are served one at a time, no
\* record is cut, and each of its steps was the plain move it reverses.
THEOREM RollbackGivesBack ==
  ASSUME OneAtATime, ~TornWrites
  PROVE  Spec => []RollbackRestores
<1>1. Init => SerialInv
  BY InitIInv, InitUndo, InitApplyInv, InitWhole, InitRestore DEF SerialInv
<1>2. SerialInv /\ [Next]_vars => SerialInv'
  <2> SUFFICES ASSUME SerialInv, [Next]_vars PROVE SerialInv'
    OBVIOUS
  <2>1. IInv' /\ UndoInv' /\ ApplyInv' /\ WholeLog'
    BY NextIInv, NextUndo, NextApplyInv, NextWhole DEF SerialInv
  <2>2. RestoreInv'
    BY NextRestore
  <2>3. QED
    BY <2>1, <2>2 DEF SerialInv
<1>3. SerialInv => RollbackRestores
  <2> SUFFICES ASSUME SerialInv, NEW t \in Tx \ impure, Intents(t) # {},
                      \A s \in Intents(t) : Logged(t, s, "ROLLED_BACK")
               PROVE  fs = base[t]
    BY DEF RollbackRestores
  <2>1. log \in Seq(Record) /\ Intents(t) = IntentsOf(log, t)
    BY DEF SerialInv, IInv, TypeOK, Intents, IntentsOf
  <2>2. IntentsOf(log, t) \subseteq RolledOf(log, t) /\ RolledOf(log, t) # {}
    BY <2>1, RolledLogged
  <2>3. PICK m \in Nat : AtRest(t, m)
    BY DEF SerialInv, RestoreInv, Restorable
  <2>4. QED
    BY <2>2, <2>3 DEF AtRest
<1>4. QED
  BY <1>1, <1>2, <1>3, PTL DEF Spec

=============================================================================
