---------------------------- MODULE DurableStore ----------------------------
(***************************************************************************)
(* The coordinator's durable store at the grain of single writes: a        *)
(* snapshot, a log of the records appended since, and a process that may   *)
(* be killed between any two writes, or see one fail.                      *)
(*                                                                         *)
(* A handler changes the registry in memory and appends one record for     *)
(* each thing it changed; todo holds the writes of the running handler     *)
(* that are still ahead.  The registry is reduced to the state of each     *)
(* grant, its reservation, the reservation counter of one endpoint scope,  *)
(* the length of the audit trail and the term.                             *)
(***************************************************************************)
EXTENDS Integers, FiniteSets, SequencesExt

CONSTANTS
  MaxGrant,        \* grants that can be issued
  CompactRecords,  \* the log length that calls for a compaction
  AuditLimit,      \* how many records the audit trail holds
  MaxCrash,        \* how often the process is killed
  MaxFailure       \* how often an append fails

ASSUME DurableStoreAssumption ==
  /\ MaxGrant \in Nat /\ AuditLimit \in Nat
  /\ CompactRecords \in Nat \ {0}
  /\ MaxCrash \in Nat /\ MaxFailure \in Nat

Grant == 1..MaxGrant
GrantState == {"None", "Preparing", "Committed", "Fenced"}
Reservation == {"None", "held", "released"}
Registry == [grant : [Grant -> GrantState], resv : [Grant -> Reservation], reserved : Nat,
             audit : Nat, term : Nat]
EmptyRegistry == [grant |-> [g \in Grant |-> "None"], resv |-> [g \in Grant |-> "None"],
                  reserved |-> 0, audit |-> 0, term |-> 0]

(* A log record: of is the grant it is about, if any; num and state are what
   it puts there.  A Torn record is a
   write that reached the disk in part. *)
RecordKind == {"MetaSet", "GrantPut", "ReservationPut", "ClusterPut", "AuditAppend", "Incident"}
Record == [seq : Nat, kind : RecordKind \cup {"Torn"}, of : Nat,
           num : Nat, state : GrantState \cup Reservation]
Torn == [seq |-> 0, kind |-> "Torn", of |-> 0, num |-> 0, state |-> "None"]

(* A write still ahead: the record to append, taken from the registry when
   its turn comes, or a step of a compaction. *)
WriteKind == {"meta", "grant", "commit", "resv", "cluster", "audit", "audited", "incident",
              "compact", "reset"}
Write == [kind : WriteKind, of : Nat]
write(kind) == [kind |-> kind, of |-> 0]
write_of(kind, g) == [kind |-> kind, of |-> g]

VARIABLES
  has_snapshot, snapshot,  \* the snapshot file, if there is one
  wal,                     \* the log file
  process,                 \* what the coordinator process is doing
  mem,                     \* the registry in memory
  next_sequence,           \* the number of the next record
  todo,                    \* the writes of the running handler still ahead
  crashes, failures,       \* how many there have been
  served                   \* history: the terms that have served

disk == <<has_snapshot, snapshot, wal>>
vars == <<has_snapshot, snapshot, wal, process, mem, next_sequence, todo, crashes, failures, served>>

Init ==
  /\ has_snapshot = FALSE /\ snapshot = EmptyRegistry
  /\ wal = <<>>
  /\ process = "down"
  /\ mem = EmptyRegistry
  /\ next_sequence = 1
  /\ todo = <<>>
  /\ crashes = 0 /\ failures = 0
  /\ served = {}

TypeOK ==
  /\ has_snapshot \in BOOLEAN /\ snapshot \in Registry
  /\ wal \in Seq(Record)
  /\ process \in {"down", "starting", "serving", "refused"}
  /\ mem \in Registry
  /\ next_sequence \in Nat
  /\ todo \in Seq(Write)
  /\ crashes \in 0..MaxCrash /\ failures \in 0..MaxFailure
  /\ served \in SUBSET Nat

----------------------------------------------------------------------------
(* apply_mutation: what a record does to a registry, and which it refuses. *)
applicable(reg, r) ==
  /\ r.kind = "ReservationPut" => reg.grant[r.of] # "None"
  /\ r.kind = "AuditAppend" => reg.audit = 0 \/ r.num = reg.audit + 1

apply_mutation(reg, r) ==
  CASE r.kind = "MetaSet" -> [reg EXCEPT !.term = r.num]
    [] r.kind = "GrantPut" -> [reg EXCEPT !.grant[r.of] = r.state]
    [] r.kind = "ReservationPut" -> [reg EXCEPT !.resv[r.of] = r.state]
    [] r.kind = "ClusterPut" -> [reg EXCEPT !.reserved = r.num]
    [] r.kind = "AuditAppend" -> [reg EXCEPT !.audit = r.num]
    [] r.kind = "Incident" -> reg

(* Wal::open: the log is cut at the first record that is not whole, and what
   precedes it is replayed on the snapshot, in strictly increasing sequence. *)
intact(log) ==
  LET torn == {i \in DOMAIN log : log[i].kind = "Torn"}
  IN  IF torn = {} THEN log ELSE SubSeq(log, 1, Min(torn) - 1)

(* Fault: what is torn stays in the file. *)
opened_uncut(log) == log

(* The file itself is cut, so that the next append follows a whole record. *)
opened(log) == intact(log)

visit(replay, r) ==
  IF replay.ok /\ r.seq > replay.last /\ applicable(replay.reg, r)
  THEN [ok |-> TRUE, last |-> r.seq, reg |-> apply_mutation(replay.reg, r)]
  ELSE [replay EXCEPT !.ok = FALSE]

recovered ==
  FoldLeft(visit, [ok |-> TRUE, last |-> 0, reg |-> snapshot], intact(wal))

(* Fault: the counter is lowered without looking whether it can be. *)
minus_unchecked(a, b) == a - b

(* A plan fences the grants G and releases the reservations of the grants R;
   one audit record per grant goes into the registry. *)
minus(a, b) == IF b \in 0..a THEN a - b ELSE 0
apply_fence_plan(reg, G, R) ==
  [reg EXCEPT !.grant = [g \in Grant |-> IF g \in G THEN "Fenced" ELSE @[g]],
              !.resv = [g \in Grant |-> IF g \in R THEN "released" ELSE @[g]],
              !.reserved = minus(@, Cardinality(R)),
              !.audit = @ + Cardinality({g \in G : reg.grant[g] # "Fenced"})]

(* Everything recovered in a live state is fenced, every reservation released. *)
live(reg) == {g \in Grant : reg.grant[g] \in {"Preparing", "Committed"}}
reserving(reg) == {g \in Grant : reg.resv[g] = "held"}
fence_recovered_state(reg) == apply_fence_plan(reg, live(reg), reserving(reg))

writes_of(kind, G) == [i \in 1..Cardinality(G) |-> write_of(kind, SetToSeq(G)[i])]

(***************************************************************************)
(* start: the store is opened, and the new incarnation records its term,   *)
(* what it fenced, and that it began.  It does not start when the log does *)
(* not replay, or when the audit trail has no room for what it fences.     *)
(***************************************************************************)
begin_incarnation(reg, from_store) ==
  LET known == {g \in Grant : reg.grant[g] # "None"}
      reserved == {g \in Grant : reg.resv[g] # "None"}
  IN  <<write("meta")>>
        \o (IF from_store
            THEN <<write("incident")>> \o writes_of("grant", known) \o writes_of("resv", reserved)
                   \o <<write("cluster")>>
            ELSE <<>>)
        \o <<write("audit"), write("compact")>>

start ==
  LET from_store == has_snapshot \/ intact(wal) # <<>>
      reg == [fence_recovered_state(recovered.reg) EXCEPT !.term = @ + 1]
      room == live(recovered.reg) # {} => reg.audit <= AuditLimit
      meta == [seq |-> recovered.last + 1, kind |-> "MetaSet", of |-> 0, num |-> reg.term,
               state |-> "None"]
  IN  /\ process = "down"
      /\ wal' = IF ~recovered.ok THEN wal
                ELSE IF room THEN opened(wal) ELSE Append(opened(wal), meta)
      /\ IF recovered.ok /\ room
         THEN /\ process' = "starting"
              /\ mem' = reg
              /\ next_sequence' = recovered.last + 1
              /\ todo' = begin_incarnation(reg, from_store)
         ELSE /\ process' = "refused"
              /\ UNCHANGED <<mem, next_sequence, todo>>
      /\ UNCHANGED <<has_snapshot, snapshot, crashes, failures, served>>

(***************************************************************************)
(* The next write of the running handler.                                  *)
(***************************************************************************)
busy == process \in {"starting", "serving"} /\ todo # <<>>
appends(w) == w.kind \notin {"compact", "reset"}

(* What the handler changes in memory just before it writes.  A full audit
   trail takes no more records. *)
trail_full(w) == w.kind = "audit" /\ mem.audit >= AuditLimit
in_memory(w) ==
  IF w.kind = "commit" THEN [mem EXCEPT !.grant[w.of] = "Committed"]
  ELSE IF w.kind = "audit" THEN [mem EXCEPT !.audit = @ + 1]
  ELSE mem

record_of(w, reg) ==
  LET number(kind, n) == [seq |-> next_sequence, kind |-> kind, of |-> 0, num |-> n, state |-> "None"]
      put(kind, x) == [seq |-> next_sequence, kind |-> kind, of |-> w.of, num |-> 0, state |-> x]
  IN  CASE w.kind = "meta" -> number("MetaSet", reg.term)
        [] w.kind \in {"grant", "commit"} -> put("GrantPut", reg.grant[w.of])
        [] w.kind = "resv" -> put("ReservationPut", reg.resv[w.of])
        [] w.kind = "cluster" -> number("ClusterPut", reg.reserved)
        [] w.kind = "audit" -> number("AuditAppend", reg.audit)
        [] w.kind = "audited" -> number("AuditAppend", w.of)
        [] w.kind = "incident" -> number("Incident", 0)

(* The handler goes on; a start that is through serves. *)
advance(rest) ==
  /\ todo' = rest
  /\ process' = IF rest = <<>> THEN "serving" ELSE process
  /\ served' = IF rest = <<>> THEN served \cup {mem.term} ELSE served

append ==
  LET w == Head(todo)
  IN  /\ busy /\ appends(w)
      /\ IF trail_full(w)
         THEN UNCHANGED <<mem, wal, next_sequence>>
         ELSE /\ mem' = in_memory(w)
              /\ wal' = Append(wal, record_of(w, mem'))
              /\ next_sequence' = next_sequence + 1
      /\ advance(Tail(todo))
      /\ UNCHANGED <<has_snapshot, snapshot, crashes, failures>>

(* An append fails with nothing, a part or the whole of the record on disk.
   The handler gives up, and a start with it; the number is not used up. *)
append_fails ==
  LET w == Head(todo)
  IN  /\ busy /\ appends(w) /\ ~trail_full(w) /\ failures < MaxFailure
      /\ failures' = failures + 1
      /\ \E left \in {<<>>, <<Torn>>, <<record_of(w, in_memory(w))>>} : wal' = wal \o left
      /\ IF process = "starting"
         THEN process' = "down" /\ mem' = EmptyRegistry
         ELSE mem' = in_memory(w) /\ UNCHANGED process
      /\ todo' = <<>>
      /\ UNCHANGED <<has_snapshot, snapshot, next_sequence, crashes, served>>

(* compact: the snapshot replaces the old one, then an empty log the log. *)
compact_skipped ==
  /\ busy /\ Head(todo).kind = "compact" /\ Len(wal) < CompactRecords
  /\ advance(Tail(todo))
  /\ UNCHANGED <<disk, mem, next_sequence, crashes, failures>>

(* Fault: the snapshot keeps the term that was recovered. *)
save_snapshot_of_recovered_term ==
  /\ busy /\ Head(todo).kind = "compact" /\ Len(wal) >= CompactRecords
  /\ has_snapshot' = TRUE /\ snapshot' = [mem EXCEPT !.term = @ - 1]
  /\ advance(<<write("reset")>>)
  /\ UNCHANGED <<wal, mem, next_sequence, crashes, failures>>

save_snapshot ==
  /\ busy /\ Head(todo).kind = "compact" /\ Len(wal) >= CompactRecords
  /\ has_snapshot' = TRUE /\ snapshot' = mem
  /\ advance(<<write("reset")>>)
  /\ UNCHANGED <<wal, mem, next_sequence, crashes, failures>>

reset ==
  /\ busy /\ Head(todo).kind = "reset"
  /\ wal' = <<>>
  /\ advance(Tail(todo))
  /\ UNCHANGED <<has_snapshot, snapshot, mem, next_sequence, crashes, failures>>

(* The process is killed; a write in progress may have left a part. *)
crash ==
  /\ process \in {"starting", "serving"} /\ crashes < MaxCrash
  /\ crashes' = crashes + 1
  /\ \/ UNCHANGED wal
     \/ busy /\ appends(Head(todo)) /\ wal' = Append(wal, Torn)
  /\ process' = "down" /\ mem' = EmptyRegistry /\ todo' = <<>>
  /\ UNCHANGED <<has_snapshot, snapshot, next_sequence, failures, served>>

----------------------------------------------------------------------------
(* The handlers. *)
begin(reg, writes) ==
  /\ process = "serving" /\ todo = <<>>
  /\ mem' = reg /\ todo' = writes
  /\ UNCHANGED <<disk, process, next_sequence, crashes, failures, served>>

apply_grant_issue(g) ==
  /\ mem.grant[g] = "None" /\ \A h \in Grant : h < g => mem.grant[h] # "None"
  /\ begin([mem EXCEPT !.grant[g] = "Preparing"], <<write_of("grant", g)>>)

(* Fault: the commit is written before the reservation. *)
finalise_writes_commit_first(g) ==
  <<write_of("commit", g), write_of("resv", g), write("cluster"), write("audit")>>

(* The last acknowledgement: capacity is reserved, then the grant commits. *)
finalise_writes(g) ==
  <<write_of("resv", g), write("cluster"), write_of("commit", g), write("audit")>>
finalise_grant(g) ==
  /\ mem.grant[g] = "Preparing" /\ mem.resv[g] = "None"
  /\ begin([mem EXCEPT !.resv[g] = "held", !.reserved = @ + 1], finalise_writes(g))


(* fence_plan_apply writes what the plan changed.  When the audit trail is
   full the plan stops after its first change, and nothing is written.  (To
   fence a fenced grant again writes the same records, and is left out.) *)
fence_writes(g, reg) ==
  <<write_of("grant", g)>>
    \o (IF mem.resv[g] = "held" THEN <<write_of("resv", g)>> ELSE <<>>)
    \o <<write("cluster"), write_of("audited", reg.audit)>>

(* Fault: a reservation is released whether or not it is held. *)
released_by_unheld(g) == {g}

released_by(g) == {g} \cap reserving(mem)
fence_grant(g) ==
  LET reg == apply_fence_plan(mem, {g}, released_by(g))
  IN  /\ mem.grant[g] \notin {"None", "Fenced"}
      /\ IF reg.audit <= AuditLimit
         THEN begin(reg, fence_writes(g, reg))
         ELSE begin([mem EXCEPT !.grant[g] = "Fenced"], <<>>)

tick == begin(mem, <<write("compact")>>) /\ Len(wal) >= CompactRecords

Next ==
  \/ start \/ append \/ append_fails \/ compact_skipped \/ save_snapshot \/ reset \/ crash
  \/ tick
  \/ \E g \in Grant : apply_grant_issue(g) \/ finalise_grant(g) \/ fence_grant(g)

Spec == Init /\ [][Next]_vars

----------------------------------------------------------------------------
(* A term that has served never serves again, and terms only grow, wherever
   the process was killed and whatever write failed: a compaction carries the
   term, and a start records it first (begin_incarnation, compact). *)
TermNeverReused ==
  [][process = "starting" /\ process' = "serving" => \A old \in served : mem'.term > old]_vars


(* At every instant, a grant that the store has as committed has its
   reservation in the store (finalise_grant writes the reservation first,
   fence_plan_apply the grant). *)
CommittedOnDiskHoldsReservation ==
  recovered.ok => \A g \in Grant : recovered.reg.grant[g] = "Committed" => recovered.reg.resv[g] = "held"

(* "hard kill is explicitly supported: nothing is buffered that is not already
   durable, and the next start increments the term" (ARCHITECTURE.md): the
   coordinator starts again on what it wrote itself. *)
StartsOnItsOwnStore == process # "refused"

(* "A torn tail (a partially written last record)" (OPERATIONS.md): as long as no
   append fails, wherever the process is killed and however often it starts
   again, no record that was appended whole is behind a torn one, where recovery
   would discard it (Wal::open cuts the tail off before anything is appended). *)
TornIsLast ==
  failures = 0 => Len(intact(wal)) >= Len(SelectSeq(wal, LAMBDA r : r.kind # "Torn"))

(* A crash between the records of a commit or a fence errs on the safe side: the
   counter of the endpoint scope is never below the reservations held on it, so
   that no capacity is given out twice (finalise_grant, fence_plan_apply). *)
NeverUndercounted ==
  process = "serving" /\ todo = <<>> /\ failures = 0 => mem.reserved >= Cardinality(reserving(mem))
=============================================================================
