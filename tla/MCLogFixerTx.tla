---------------------------- MODULE MCLogFixerTx ----------------------------
(* Small instances of LogFixerTx. *)
EXTENDS LogFixerTx, TLC

CONSTANTS a, b, c, m, md, x, y

Rename(p, q) == [kind |-> "rename", src |-> p, dst |-> q]
Disable == [kind |-> "disable", src |-> m, dst |-> md]
Enable == [kind |-> "enable", src |-> md, dst |-> m]

MCPath == {a, b, c, m, md}

MCAllowed == {a, b, c}

\* Renames that chain, that undo or block each other, and markers of a module
\* that has one of its names, or both.
MCRequests == {
  <<Rename(a, b), Rename(b, c)>>,
  <<Rename(c, b)>>,
  <<Enable>>,
  <<Disable, Rename(a, c)>> }

Fs(p, q) == [r \in MCPath |-> CASE r = p -> x [] r = q -> y [] OTHER -> None]

MCInitFs == {Fs(a, m), Fs(b, c), Fs(m, md)}

\* Transactions that move different files to one path, or one file twice.
MCRaceRequests == {<<Rename(a, c)>>, <<Enable, Rename(b, c)>>}
MCRaceFs == {Fs(a, b), Fs(b, md)}

Symmetry == Permutations(Threads)

=============================================================================
