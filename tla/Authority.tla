----------------------------- MODULE Authority -----------------------------
(***************************************************************************)
(* What the fabric promises about authority, with no connections, no       *)
(* messages and no failures of any component in sight.  Parties install    *)
(* attempts; an authority of some term decides which attempts are usable.  *)
(* An attempt becomes usable only in the term it was made in and only when *)
(* every party has installed it.  A new term starts with nothing usable.   *)
(***************************************************************************)
EXTENDS Integers

CONSTANT Parties

VARIABLES
  term,       \* the term of the authority
  installed,  \* <<attempt, party>>: the party has enforced the attempt
  usable      \* <<attempt, term>>: the attempt, made in that term, carries authority

Init == term = 1 /\ installed = {} /\ usable = {}

(* Parties only ever add to what they have installed. *)
Install ==
  /\ installed \subseteq installed'
  /\ UNCHANGED <<term, usable>>

Entitled(u) == u[2] = term /\ \A p \in Parties : <<u[1], p>> \in installed

(* Any number of attempts may lose their authority; those that gain it are
   entitled to it. *)
Decide ==
  /\ \A u \in usable' : u \in usable \/ Entitled(u)
  /\ UNCHANGED <<term, installed>>

NewTerm ==
  /\ term' = term + 1
  /\ usable' = {}
  /\ UNCHANGED installed

Next == Install \/ Decide \/ NewTerm

Spec == Init /\ [][Next]_<<term, installed, usable>>
=============================================================================
