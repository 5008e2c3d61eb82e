------------------------------ MODULE Requests ------------------------------
(***************************************************************************)
(* What the client library promises to its callers.  A request takes       *)
(* effect at most once and never before it is asked; what a call returns   *)
(* is the effect of the request it asked; and a call may fail at any time, *)
(* which says nothing about its request: it may have taken effect already, *)
(* and may still do so afterwards.                                         *)
(***************************************************************************)
EXTENDS Naturals

CONSTANTS
  Caller,     \* the users of the library, one call at a time each
  Request     \* request identities

ASSUME RequestsAssumption == Request \subseteq Nat \ {0}

NoRequest == 0
None == [none |-> TRUE]
Kind == {"query", "admin"}
Unasked == "unasked"
Value == [view : Nat]   \* a result, as the registry it was made from

VARIABLES
  view,       \* the registry, as the number of its changes
  kind,       \* the kind of each request, once it was asked
  since,      \* the registry as it was when the request was asked
  effect,     \* what the request did or found, once it took effect
  asked,      \* the request each caller is waiting for
  answer      \* what the last call returned: a request and a value, or nothing

absvars == <<view, kind, since, effect, asked, answer>>

Begin ==
  /\ view = 0
  /\ kind = [r \in Request |-> Unasked]
  /\ since = [r \in Request |-> 0]
  /\ effect = [r \in Request |-> None]
  /\ asked = [c \in Caller |-> NoRequest]
  /\ answer = [c \in Caller |-> None]

Ask(c, r, k) ==
  /\ asked[c] = NoRequest /\ kind[r] = Unasked
  /\ kind' = [kind EXCEPT ![r] = k]
  /\ since' = [since EXCEPT ![r] = view]
  /\ asked' = [asked EXCEPT ![c] = r]
  /\ UNCHANGED <<view, effect, answer>>

(* Only an administrative request changes the registry. *)
TakeEffect(r, v) ==
  /\ kind[r] # Unasked /\ effect[r] = None
  /\ v \in {view} \cup {u \in {view + 1} : kind[r] = "admin"}
  /\ view' = v
  /\ effect' = [effect EXCEPT ![r] = [view |-> v]]
  /\ UNCHANGED <<kind, since, asked, answer>>

Return(c) ==
  /\ asked[c] # NoRequest
  /\ asked' = [asked EXCEPT ![c] = NoRequest]
  /\ \/ /\ effect[asked[c]] # None
        /\ answer' = [answer EXCEPT ![c] = [req |-> asked[c], value |-> effect[asked[c]]]]
     \/ answer' = [answer EXCEPT ![c] = None]
  /\ UNCHANGED <<view, kind, since, effect>>

Happens ==
  \/ \E c \in Caller, r \in Request, k \in Kind : Ask(c, r, k)
  \/ \E r \in Request, v \in {view, view + 1} : TakeEffect(r, v)
  \/ \E c \in Caller : Return(c)

Contract == Begin /\ [][Happens]_absvars
=============================================================================
