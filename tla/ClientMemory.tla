---------------------------- MODULE ClientMemory ----------------------------
(***************************************************************************)
(* What saving and restoring a verified process is to be: a copy of all    *)
(* that the program can see, made at once and given back as it was.        *)
(* Nothing that the process does changes what is saved, and one operation  *)
(* gives one permission to the words that it changes.                      *)
(***************************************************************************)
EXTENDS Naturals

CONSTANT None

VARIABLES
  current,  \* words: permission and, if readable, value of each; the rest of the process
  saved     \* copies of current, None where there is none

vars == <<current, saved>>

Init == \A i \in DOMAIN saved : saved[i] = None

Step ==
  LET before == current.words
      after == current'.words
      changed == {a \in DOMAIN before : after[a] # before[a]}
  IN /\ DOMAIN after = DOMAIN before
     /\ \A a, b \in changed : after[a].perm = after[b].perm
     /\ UNCHANGED saved

Save ==
  /\ \E i \in DOMAIN saved : saved[i] = None /\ saved' = [saved EXCEPT ![i] = current]
  /\ UNCHANGED current

Restore == \E i \in DOMAIN saved : saved[i] # None /\ current' = saved[i] /\ UNCHANGED saved

Forget ==
  /\ \E i \in DOMAIN saved : saved' = [saved EXCEPT ![i] = None]
  /\ UNCHANGED current

Next == Step \/ Save \/ Restore \/ Forget

Spec == Init /\ [][Next]_vars

=============================================================================
