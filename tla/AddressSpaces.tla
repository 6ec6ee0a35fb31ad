---------------------------- MODULE AddressSpaces ---------------------------
(***************************************************************************)
(* What simulated memory promises: each program has a map from addresses   *)
(* to values of its own, zero at first, that its writes change where they  *)
(* write, that fork copies, and that a checkpoint keeps.  Regions that a   *)
(* program maps may get other contents while they are mapped or unmapped;  *)
(* nothing else may.                                                       *)
(***************************************************************************)
EXTENDS Integers, FiniteSets, TLC

CONSTANTS Fresh       \* no checkpoint was made

VARIABLES contents,   \* of each program: address -> value
          mapped,     \* of each program: the addresses it has mapped
          saved       \* the checkpoint

vars == <<contents, mapped, saved>>

Init == /\ DOMAIN contents = {1} /\ \A a \in DOMAIN contents[1] : contents[1][a] = 0
        /\ mapped = (1 :> {})
        /\ saved = Fresh

\* a step of program c on its own memory
Differ(f, g) == {a \in DOMAIN f : f[a] # g[a]}
Within(A, f, g) == Differ(f, g) \subseteq A

(* A write of one unit or of two, of one value.  *)
Write(now, next, where, where2) ==
  /\ where2 = where
  /\ LET D == Differ(now, next)
     IN Cardinality(D) <= 2 /\ \A a, b \in D : a - b < 2 /\ next[a] = next[b]

(* Mapping or unmapping: the contents change there only. *)
Map(now, next, where, where2) == Within(where \cup where2, now, next)

(* execve: what stays mapped stays, and all else is zero.  *)
Exec(now, next, where, where2) ==
  /\ where2 \subseteq where
  /\ \A a \in DOMAIN next : next[a] = IF a \in where2 THEN now[a] ELSE 0

Step ==
  \E old \in {contents}, new \in {contents'}, om \in {mapped}, nm \in {mapped'} :
    /\ DOMAIN new = DOMAIN old /\ UNCHANGED saved
    /\ \E c \in DOMAIN old :
         /\ \A d \in DOMAIN old \ {c} : new[d] = old[d] /\ nm[d] = om[d]
         /\ \/ Write(old[c], new[c], om[c], nm[c])
            \/ Map(old[c], new[c], om[c], nm[c])
            \/ Exec(old[c], new[c], om[c], nm[c])

(* What is mapped may be missing in the checkpoint. *)
Save ==
  /\ saved = Fresh /\ saved' # Fresh /\ Within(mapped[1], contents[1], saved')
  /\ UNCHANGED <<contents, mapped>>

Born(d, image, regions) ==
  /\ contents' = (d :> image) @@ contents /\ mapped' = (d :> regions) @@ mapped
  /\ UNCHANGED saved
Fork == \E d \in DOMAIN contents' \ DOMAIN contents, c \in DOMAIN contents :
          Born(d, contents[c], mapped[c])
Restore == saved # Fresh /\ \E d \in DOMAIN contents' \ DOMAIN contents : Born(d, saved, {})

Next == Step \/ Save \/ Fork \/ Restore
Spec == Init /\ [][Next]_vars
=============================================================================
