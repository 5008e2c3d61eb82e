-------------------------------- MODULE Codec --------------------------------
(***************************************************************************)
(* The binary encodings: what ByteWriter puts into a frame or a log record *)
(* and what ByteReader takes out of it.  Every encoder and every decoder   *)
(* is a layout, the sequence of the fields it writes or reads, transcribed *)
(* from the encoder and from the decoder separately; the two run in step,  *)
(* field by field.  A text or a name stands for its length, a number for   *)
(* its length in bits, a list for its count.  A field written with one     *)
(* width and read with another makes the reader refuse.                    *)
(***************************************************************************)
EXTENDS Integers, Sequences

CONSTANTS Items,    \* how many elements a list of records holds, besides none
          Erasing   \* whether the operator deletes clusters, links, paths, policies

ASSUME CodecAssumption == Items \in Nat \ {0} /\ Erasing \in BOOLEAN

kMaxNameLength == 96
kMaxScopeLength == 192
kMaxStringField == 512
kMaxCapacity == 48           \* 2^48
kMaxDurationNanos == 54      \* 365 days
kMaxGeneration == 62         \* 2^62
AnyLength == 64              \* a 64-bit number without a bound
kMaxDecisionReasons == 32
kMaxDecisionPaths == 8
kModelEncodingVersion == 1
kRevalidateBits == 18        \* kMaxRevalidateAttempts * 4096
Unlimited == 100000          \* the bounds on counts that Items never reaches
Internal == 25               \* the last Outcome
AuthoritySatisfied == 56     \* the last ReasonCode

-----------------------------------------------------------------------------
(* Fields: the type, its bound, and the layout that follows each value.    *)

field(t, m) == [type |-> t, max |-> m, sub |-> <<>>]
uuid == <<field("uuid", 0)>>
digest == <<field("digest", 0)>>
boolean == <<field("boolean", 1)>>
u32 == <<field("u32", 32)>>
i64 == <<field("i64", AnyLength)>>
u64 == <<field("u64", AnyLength)>>
enum8(m) == <<field("enum8", m)>>
enum16(m) == <<field("enum16", m)>>
counter(m) == <<field("counter", m)>>
name(m) == <<field("name", m)>>
optional_name == <<field("optional_name", kMaxNameLength)>>
text(m) == <<field("text", m)>>
opt(layout) == <<[type |-> "opt", max |-> 1, sub |-> layout]>>
list(m, layout) == <<[type |-> "list", max |-> m, sub |-> layout]>>
switch8(layouts) == <<[type |-> "switch8", max |-> 0, sub |-> layouts]>>
switch16(layouts) == <<[type |-> "switch16", max |-> 0, sub |-> layouts]>>

Bytes == [boolean |-> 1, enum8 |-> 1, opt |-> 1, switch8 |-> 1, kind8 |-> 1,
          enum16 |-> 2, switch16 |-> 2, version |-> 2, version_min |-> 2, version_max |-> 2,
          u32 |-> 4, limit |-> 4, list |-> 4, u64 |-> 8, i64 |-> 8, counter |-> 8, lease |-> 8,
          uuid |-> 16, digest |-> 32,
          name |-> 0, first |-> 0, fresh |-> 0, optional_name |-> 0, absent |-> 0, text |-> 0]

Times(n, layout) == [i \in 1..(n * Len(layout)) |-> layout[((i - 1) % Len(layout)) + 1]]

-----------------------------------------------------------------------------
(* The records of the model.  A deletion writes a record of which only the *)
(* identity is set (whole = FALSE): its other names are empty.             *)

held_name(whole) == IF whole THEN name(kMaxNameLength) ELSE <<field("absent", 0)>>
held_list(whole, layout) == list(IF whole THEN Items ELSE 0, layout)
first_name == <<field("first", kMaxNameLength)>>
fresh_name == <<field("fresh", kMaxNameLength)>>

encode_provenance == enum8(5) \o enum8(4) \o i64 \o counter(kMaxGeneration) \o uuid \o digest
decode_provenance == enum8(5) \o enum8(4) \o i64 \o counter(kMaxGeneration) \o uuid \o digest

encode_endpoint == fresh_name \o name(kMaxNameLength) \o name(kMaxScopeLength) \o counter(kMaxCapacity)
                   \o counter(kMaxCapacity) \o counter(kMaxGeneration) \o enum8(4) \o boolean \o boolean
                   \o encode_provenance
decode_endpoint == fresh_name \o name(kMaxNameLength) \o name(kMaxScopeLength) \o counter(kMaxCapacity)
                   \o counter(kMaxCapacity) \o counter(kMaxGeneration) \o enum8(4) \o boolean \o boolean
                   \o decode_provenance

encode_consent == name(kMaxNameLength) \o name(kMaxNameLength) \o uuid \o counter(kMaxGeneration)
                  \o counter(kMaxGeneration) \o counter(kMaxGeneration) \o digest \o enum8(1) \o i64
                  \o uuid \o enum8(1) \o text(kMaxStringField)
decode_consent == name(kMaxNameLength) \o name(kMaxNameLength) \o uuid \o counter(kMaxGeneration)
                  \o counter(kMaxGeneration) \o counter(kMaxGeneration) \o digest \o enum8(1) \o i64
                  \o uuid \o enum8(1) \o text(kMaxStringField)

encode_cluster(whole) ==
    name(kMaxNameLength) \o held_name(whole) \o uuid \o counter(kMaxGeneration) \o counter(kMaxGeneration)
    \o enum8(4) \o boolean \o i64 \o held_list(whole, encode_endpoint) \o digest \o boolean \o boolean
    \o counter(kMaxGeneration) \o counter(kMaxGeneration) \o encode_provenance \o counter(kMaxGeneration)
decode_cluster ==
    name(kMaxNameLength) \o name(kMaxNameLength) \o uuid \o counter(kMaxGeneration) \o counter(kMaxGeneration)
    \o enum8(4) \o boolean \o i64 \o list(Unlimited, decode_endpoint) \o digest \o boolean \o boolean
    \o counter(kMaxGeneration) \o counter(kMaxGeneration) \o decode_provenance \o counter(kMaxGeneration)

encode_link(whole) ==
    name(kMaxNameLength) \o held_name(whole) \o held_name(whole) \o enum16(3) \o enum8(4)
    \o counter(kMaxCapacity) \o counter(kMaxCapacity) \o u32 \o counter(kMaxGeneration) \o encode_provenance
decode_link ==
    name(kMaxNameLength) \o name(kMaxNameLength) \o name(kMaxNameLength) \o enum16(3) \o enum8(4)
    \o counter(kMaxCapacity) \o counter(kMaxCapacity) \o u32 \o counter(kMaxGeneration) \o decode_provenance

encode_path(whole) ==
    name(kMaxNameLength) \o held_name(whole) \o held_name(whole) \o held_list(whole, name(kMaxNameLength))
    \o counter(kMaxCapacity) \o enum8(3) \o counter(kMaxGeneration) \o encode_provenance \o boolean
decode_path ==
    name(kMaxNameLength) \o name(kMaxNameLength) \o name(kMaxNameLength) \o list(16, name(kMaxNameLength))
    \o counter(kMaxCapacity) \o enum8(3) \o counter(kMaxGeneration) \o decode_provenance \o boolean

encode_policy(whole) ==
    name(kMaxNameLength) \o held_name(whole) \o Times(4, optional_name) \o counter(kMaxGeneration)
    \o boolean \o boolean \o counter(kMaxCapacity) \o counter(kMaxGeneration) \o encode_provenance
decode_policy ==
    name(kMaxNameLength) \o name(kMaxNameLength) \o Times(4, optional_name) \o counter(kMaxGeneration)
    \o boolean \o boolean \o counter(kMaxCapacity) \o counter(kMaxGeneration) \o decode_provenance

(* Validated terms join two different clusters; the decoder asks for it.   *)
encode_contract ==
    uuid \o first_name \o name(kMaxNameLength) \o name(kMaxNameLength)
    \o fresh_name \o name(kMaxNameLength) \o name(kMaxNameLength) \o counter(kMaxCapacity)
    \o <<field("lease", kMaxDurationNanos)>> \o digest \o enum8(7) \o Times(2, opt(encode_consent))
    \o i64 \o i64 \o counter(kMaxGeneration) \o encode_provenance
decode_contract ==
    uuid \o first_name \o name(kMaxNameLength) \o name(kMaxNameLength)
    \o fresh_name \o name(kMaxNameLength) \o name(kMaxNameLength) \o counter(kMaxCapacity)
    \o <<field("lease", kMaxDurationNanos)>> \o digest \o enum8(7) \o Times(2, opt(decode_consent))
    \o i64 \o i64 \o counter(kMaxGeneration) \o decode_provenance

encode_grant ==
    uuid \o uuid \o digest \o counter(kMaxGeneration) \o uuid \o uuid
    \o Times(2, uuid \o counter(kMaxGeneration) \o counter(kMaxGeneration)) \o counter(kMaxCapacity)
    \o i64 \o i64 \o enum8(8) \o Times(2, boolean \o digest) \o counter(kRevalidateBits)
    \o text(kMaxStringField) \o counter(kMaxGeneration) \o encode_provenance
decode_grant ==
    uuid \o uuid \o digest \o counter(kMaxGeneration) \o uuid \o uuid
    \o Times(2, uuid \o counter(kMaxGeneration) \o counter(kMaxGeneration)) \o counter(kMaxCapacity)
    \o i64 \o i64 \o enum8(8) \o Times(2, boolean \o digest) \o counter(kRevalidateBits)
    \o text(kMaxStringField) \o counter(kMaxGeneration) \o decode_provenance

encode_reservation == uuid \o uuid \o name(kMaxNameLength) \o name(kMaxNameLength) \o counter(kMaxCapacity)
                      \o boolean \o i64 \o i64 \o counter(kMaxGeneration) \o encode_provenance
decode_reservation == uuid \o uuid \o name(kMaxNameLength) \o name(kMaxNameLength) \o counter(kMaxCapacity)
                      \o boolean \o i64 \o i64 \o counter(kMaxGeneration) \o decode_provenance

encode_audit == u64 \o i64 \o text(64) \o text(64) \o text(128) \o enum16(Internal) \o text(kMaxStringField)
decode_audit == u64 \o i64 \o Times(3, text(kMaxStringField)) \o enum16(Internal) \o text(kMaxStringField)

(***************************************************************************)
(* A log record: the kind, then the record it puts or erases.  The         *)
(* coordinator erases clusters, links, paths and policies only.            *)
(***************************************************************************)
written_kinds == {1, 3, 5, 7, 9, 11, 13, 14, 15} \cup IF Erasing THEN {2, 4, 6, 8} ELSE {}

encode_mutation ==
    switch16([k \in written_kinds |->
        CASE k \in {1, 2} -> encode_cluster(k = 1)
          [] k \in {3, 4} -> encode_link(k = 3)
          [] k \in {5, 6} -> encode_path(k = 5)
          [] k \in {7, 8} -> encode_policy(k = 7)
          [] k = 9 -> encode_contract
          [] k = 11 -> encode_grant
          [] k = 13 -> encode_reservation
          [] k = 14 -> encode_audit
          [] k = 15 -> counter(kMaxGeneration) \o uuid])
decode_mutation ==
    switch16([k \in 1..15 |->
        CASE k \in {1, 2} -> decode_cluster
          [] k \in {3, 4} -> decode_link
          [] k \in {5, 6} -> decode_path
          [] k \in {7, 8} -> decode_policy
          [] k \in {9, 10} -> decode_contract
          [] k \in {11, 12} -> decode_grant
          [] k = 13 -> decode_reservation
          [] k = 14 -> decode_audit
          [] k = 15 -> counter(kMaxGeneration) \o uuid])

(* The snapshot: the whole registry, with or without its audit trail.      *)
encode_registry ==
    <<field("version", kModelEncodingVersion)>>
    \o switch8([audit \in 0..1 |->
           list(Items, encode_cluster(TRUE)) \o list(Items, encode_link(TRUE)) \o list(Items, encode_path(TRUE))
           \o list(Items, encode_policy(TRUE)) \o list(Items, encode_contract) \o list(Items, encode_grant)
           \o list(Items, encode_reservation) \o IF audit = 1 THEN list(Items, encode_audit) ELSE <<>>])
decode_registry ==
    <<field("version", kModelEncodingVersion)>>
    \o switch8([audit \in 0..1 |->
           list(Unlimited, decode_cluster) \o list(Unlimited, decode_link) \o list(Unlimited, decode_path)
           \o list(Unlimited, decode_policy) \o list(Unlimited, decode_contract) \o list(Unlimited, decode_grant)
           \o list(Unlimited, decode_reservation)
           \o IF audit = 1 THEN list(Unlimited, decode_audit) ELSE <<>>])

-----------------------------------------------------------------------------
(* What the coordinator computes for a client, and the contract terms.     *)

encode_terms == Times(6, name(kMaxNameLength)) \o counter(kMaxCapacity) \o <<field("lease", kMaxDurationNanos)>>
                \o uuid \o uuid \o Times(4, counter(kMaxGeneration)) \o i64
decode_terms == Times(6, name(kMaxNameLength)) \o counter(kMaxCapacity) \o <<field("lease", kMaxDurationNanos)>>
                \o uuid \o uuid \o Times(4, counter(kMaxGeneration)) \o i64

encode_decision ==
    enum16(Internal) \o list(kMaxDecisionReasons, enum16(AuthoritySatisfied)) \o uuid \o uuid
    \o Times(2, optional_name) \o counter(kMaxGeneration) \o uuid \o digest \o digest \o counter(kMaxCapacity)
    \o list(kMaxDecisionPaths, name(kMaxNameLength)) \o list(Items, name(kMaxNameLength)) \o boolean \o i64
    \o text(kMaxStringField)
decode_decision ==
    enum16(Internal) \o list(kMaxDecisionReasons, enum16(AuthoritySatisfied)) \o uuid \o uuid
    \o Times(2, optional_name) \o counter(kMaxGeneration) \o uuid \o digest \o digest \o counter(kMaxCapacity)
    \o list(kMaxDecisionPaths, name(kMaxNameLength)) \o list(Unlimited, name(kMaxNameLength)) \o boolean \o i64
    \o text(kMaxStringField)

encode_fence_plan ==
    enum8(7) \o optional_name \o uuid \o uuid \o counter(kMaxGeneration) \o counter(kMaxGeneration) \o digest
    \o list(Items, enum8(2) \o uuid \o uuid \o uuid \o enum16(AuthoritySatisfied)) \o text(kMaxStringField)
decode_fence_plan ==
    enum8(7) \o optional_name \o uuid \o uuid \o counter(kMaxGeneration) \o counter(kMaxGeneration) \o digest
    \o list(Unlimited, enum8(2) \o uuid \o uuid \o uuid \o enum16(AuthoritySatisfied)) \o text(kMaxStringField)

encode_accounting == uuid \o uuid \o name(kMaxNameLength) \o name(kMaxNameLength) \o counter(kMaxCapacity)
                     \o counter(kMaxCapacity) \o boolean
decode_accounting == uuid \o uuid \o optional_name \o optional_name \o counter(kMaxCapacity)
                     \o counter(kMaxCapacity) \o boolean

encode_status == name(kMaxNameLength) \o uuid \o counter(kMaxGeneration) \o i64 \o u64 \o digest
                 \o counter(kMaxGeneration) \o boolean \o Times(2 + 10 + 6, u64) \o text(kMaxStringField)
decode_status == optional_name \o uuid \o counter(kMaxGeneration) \o i64 \o u64 \o digest
                 \o counter(kMaxGeneration) \o boolean \o Times(2 + 10 + 6, u64) \o text(kMaxStringField)

-----------------------------------------------------------------------------
(* The messages of the protocol.                                           *)

outcome == enum16(Internal)
detail == text(kMaxStringField)
generation == counter(kMaxGeneration)
capacity == counter(kMaxCapacity)
kind8(m) == <<field("kind8", m)>>

encode_hello == kind8(2) \o optional_name \o optional_name \o uuid \o Times(3, generation)
                \o <<field("version_min", 1)>> \o <<field("version_max", 1)>> \o u32 \o digest \o i64


decode_hello == enum8(2) \o optional_name \o optional_name \o uuid \o Times(3, generation)
                \o <<field("version_min", 1)>> \o <<field("version_max", 1)>> \o u32 \o digest \o i64

encode_hello_ack == uuid \o uuid \o generation \o outcome \o <<field("version_min", 1)>> \o digest
                    \o list(Items, uuid) \o detail
decode_hello_ack == uuid \o uuid \o generation \o outcome \o <<field("version_min", 1)>> \o digest
                    \o list(Unlimited, uuid) \o detail

encode_refuse == outcome \o detail
decode_refuse == outcome \o detail

encode_ping == generation \o i64
decode_ping == generation \o i64

encode_pong == generation
decode_pong == generation

encode_report_cluster == uuid \o encode_cluster(TRUE)
decode_report_cluster == uuid \o decode_cluster

encode_report_ack == uuid \o outcome \o generation \o digest \o detail
decode_report_ack == uuid \o outcome \o generation \o digest \o detail

encode_propose_contract == uuid \o uuid \o encode_terms \o uuid
decode_propose_contract == uuid \o uuid \o decode_terms \o uuid

encode_contract_consent == uuid \o uuid \o digest \o enum8(1) \o name(kMaxNameLength) \o uuid
                           \o Times(3, generation) \o detail
decode_contract_consent == uuid \o uuid \o digest \o enum8(1) \o name(kMaxNameLength) \o uuid
                           \o Times(3, generation) \o detail

encode_prepare_grant == uuid \o encode_grant
decode_prepare_grant == uuid \o decode_grant

encode_grant_prepared == uuid \o uuid \o uuid \o boolean \o generation \o digest \o detail
decode_grant_prepared == uuid \o uuid \o uuid \o boolean \o generation \o digest \o detail

encode_commit_grant == uuid \o uuid \o uuid
decode_commit_grant == uuid \o uuid \o uuid

encode_grant_committed == uuid \o uuid \o uuid \o boolean \o generation \o digest \o detail
decode_grant_committed == uuid \o uuid \o uuid \o boolean \o generation \o digest \o detail

encode_abort_grant == uuid \o uuid \o uuid \o detail
decode_abort_grant == uuid \o uuid \o uuid \o detail

encode_grant_aborted == uuid \o uuid \o uuid \o detail
decode_grant_aborted == uuid \o uuid \o uuid \o detail

encode_fence == uuid \o generation \o list(Items, uuid) \o detail
decode_fence == uuid \o generation \o list(Unlimited, uuid) \o detail

encode_fence_ack == uuid \o list(Items, uuid \o outcome)
decode_fence_ack == uuid \o list(Unlimited, uuid \o outcome)

encode_withdraw == uuid \o name(kMaxNameLength) \o uuid \o generation \o detail
decode_withdraw == uuid \o name(kMaxNameLength) \o uuid \o generation \o detail

encode_withdraw_ack == uuid \o outcome \o u64 \o detail
decode_withdraw_ack == uuid \o outcome \o u64 \o detail

encode_status_request == uuid \o uuid
decode_status_request == uuid \o uuid

encode_status_report == uuid \o uuid \o name(kMaxNameLength) \o uuid \o Times(3, generation)
                        \o list(Items, uuid \o uuid \o enum8(8) \o generation \o digest)
decode_status_report == uuid \o uuid \o name(kMaxNameLength) \o uuid \o Times(3, generation)
                        \o list(Unlimited, uuid \o uuid \o enum8(8) \o generation \o digest)

encode_query ==
    uuid \o kind8(15) \o Times(4, optional_name) \o uuid \o uuid \o optional_name \o detail \o capacity
    \o boolean \o <<field("limit", 4096)>> \o boolean \o generation \o boolean \o generation \o i64
decode_query ==
    uuid \o enum8(15) \o Times(4, optional_name) \o uuid \o uuid \o optional_name \o detail \o capacity
    \o boolean \o <<field("limit", 4096)>> \o boolean \o generation \o boolean \o generation \o i64

encode_query_result ==
    uuid \o switch8([k \in 1..15 |-> outcome \o detail \o
        CASE k = 1 -> opt(encode_status)
          [] k \in {2, 3} -> list(Items, encode_cluster(TRUE))
          [] k = 4 -> list(Items, encode_link(TRUE))
          [] k = 5 -> list(Items, encode_path(TRUE))
          [] k = 6 -> list(Items, encode_policy(TRUE))
          [] k \in {7, 8} -> list(Items, encode_contract)
          [] k \in {9, 10} -> list(Items, encode_grant)
          [] k = 11 -> list(Items, encode_reservation)
          [] k = 12 -> list(Items, encode_audit)
          [] k = 13 -> opt(encode_decision)
          [] k = 14 -> opt(encode_fence_plan)
          [] k = 15 -> list(Items, encode_accounting)])
decode_query_result ==
    uuid \o switch8([k \in 0..15 |-> outcome \o detail \o
        CASE k = 0 -> <<>>
          [] k = 1 -> opt(decode_status)
          [] k \in {2, 3} -> list(Unlimited, decode_cluster)
          [] k = 4 -> list(Unlimited, decode_link)
          [] k = 5 -> list(Unlimited, decode_path)
          [] k = 6 -> list(Unlimited, decode_policy)
          [] k \in {7, 8} -> list(Unlimited, decode_contract)
          [] k \in {9, 10} -> list(Unlimited, decode_grant)
          [] k = 11 -> list(Unlimited, decode_reservation)
          [] k = 12 -> list(Unlimited, decode_audit)
          [] k = 13 -> opt(decode_decision)
          [] k = 14 -> opt(decode_fence_plan)
          [] k = 15 -> list(Unlimited, decode_accounting)])

encode_admin ==
    uuid \o kind8(18) \o opt(encode_cluster(TRUE)) \o opt(encode_link(TRUE)) \o opt(encode_path(TRUE))
    \o opt(encode_policy(TRUE)) \o Times(4, optional_name) \o uuid \o uuid \o optional_name \o detail
    \o generation \o enum8(4) \o enum8(4) \o capacity \o <<field("lease", kMaxDurationNanos)>> \o detail
decode_admin ==
    uuid \o enum8(18) \o opt(decode_cluster) \o opt(decode_link) \o opt(decode_path)
    \o opt(decode_policy) \o Times(4, optional_name) \o uuid \o uuid \o optional_name \o detail
    \o generation \o enum8(4) \o enum8(4) \o capacity \o <<field("lease", kMaxDurationNanos)>> \o detail

encode_admin_result == uuid \o outcome \o detail \o digest \o generation \o uuid \o uuid
decode_admin_result == uuid \o outcome \o detail \o digest \o generation \o uuid \o uuid

encode_error == uuid \o outcome \o detail
decode_error == uuid \o outcome \o detail

Pair(written, read) == [written |-> written, read |-> read]
messages ==
    {Pair(encode_hello, decode_hello), Pair(encode_hello_ack, decode_hello_ack),
     Pair(encode_refuse, decode_refuse), Pair(encode_ping, decode_ping), Pair(encode_pong, decode_pong),
     Pair(encode_report_cluster, decode_report_cluster), Pair(encode_report_ack, decode_report_ack),
     Pair(encode_propose_contract, decode_propose_contract),
     Pair(encode_contract_consent, decode_contract_consent),
     Pair(encode_prepare_grant, decode_prepare_grant), Pair(encode_grant_prepared, decode_grant_prepared),
     Pair(encode_commit_grant, decode_commit_grant), Pair(encode_grant_committed, decode_grant_committed),
     Pair(encode_abort_grant, decode_abort_grant), Pair(encode_grant_aborted, decode_grant_aborted),
     Pair(encode_fence, decode_fence), Pair(encode_fence_ack, decode_fence_ack),
     Pair(encode_withdraw, decode_withdraw), Pair(encode_withdraw_ack, decode_withdraw_ack),
     Pair(encode_status_request, decode_status_request), Pair(encode_status_report, decode_status_report),
     Pair(encode_query, decode_query), Pair(encode_query_result, decode_query_result),
     Pair(encode_admin, decode_admin), Pair(encode_admin_result, decode_admin_result),
     Pair(encode_error, decode_error)}
stored == {Pair(encode_mutation, decode_mutation), Pair(encode_registry, decode_registry)}

-----------------------------------------------------------------------------
VARIABLES
    out,      \* the fields still to write
    in,       \* the fields still to read
    token,    \* the bytes of the field written and not yet read
    marks,    \* the name the writer, and the reader, compares the next one with
    verdict   \* nothing under way, being decoded, or refused by the decoder

vars == <<out, in, token, marks, verdict>>

TypeOK ==
    /\ Len(token) <= 1
    /\ \A i \in DOMAIN token : token[i].bytes \in {0, 1, 2, 4, 8, 16, 32} /\ token[i].value \in Nat
    /\ marks.written \in 0..kMaxNameLength /\ marks.read \in 0..kMaxNameLength
    /\ verdict \in {"idle", "open", "refused"}
    /\ verdict = "idle" => out = <<>> /\ in = <<>> /\ token = <<>>
    /\ verdict = "open" /\ token = <<>> => marks.read = marks.written

Init == out = <<>> /\ in = <<>> /\ token = <<>> /\ marks = [written |-> 0, read |-> 0] /\ verdict = "idle"

(* The values the process can hold in a field, at their extremes.          *)
held(f) ==
    CASE f.type \in {"boolean", "opt", "enum8", "enum16"} -> 0..f.max
      [] f.type \in {"kind8"} -> 1..f.max
      [] f.type \in {"switch8", "switch16"} -> DOMAIN f.sub
      [] f.type \in {"version", "version_min", "version_max"} -> {f.max}
      [] f.type \in {"name", "first"} -> {1, f.max}
      [] f.type = "fresh" -> {1, f.max} \ {marks.written}
      [] f.type \in {"uuid", "digest", "absent"} -> {0}
      [] OTHER -> {0, f.max}

(* The checks of ByteReader and of the decode_ and read_ helpers.          *)
accepts(f, v) ==
    CASE f.type \in {"name", "first"} -> v \in 1..f.max
      [] f.type = "fresh" -> v \in (1..f.max) \ {marks.read}
      [] f.type \in {"switch8", "switch16"} -> v \in DOMAIN f.sub
      [] f.type = "version" -> v = f.max
      [] f.type = "version_max" -> v >= marks.read
      [] f.type \in {"uuid", "digest", "u32", "u64", "i64", "version_min"} -> TRUE
      [] OTHER -> v <= f.max

(* The fields that follow once v was written or read for f.                *)
after(f, v) ==
    CASE f.type = "opt" -> IF v = 1 THEN f.sub ELSE <<>>
      [] f.type = "list" -> Times(v, f.sub)
      [] f.type \in {"switch8", "switch16"} -> f.sub[v]
      [] OTHER -> <<>>

(* Two endpoints of a cluster, and the two parties of a contract, differ.  *)
marked(f, v, old) ==
    CASE f.type \in {"first", "fresh", "version_min"} -> v
      [] f.type = "list" -> 0
      [] OTHER -> old

begin ==
    /\ verdict # "open"
    /\ \E p \in messages \cup stored : out' = p.written /\ in' = p.read
    /\ token' = <<>> /\ marks' = [written |-> 0, read |-> 0] /\ verdict' = "open"

put ==
    /\ verdict = "open" /\ out # <<>> /\ token = <<>>
    /\ LET f == Head(out)
       IN \E v \in held(f) :
             /\ token' = <<[bytes |-> Bytes[f.type], value |-> v]>>
             /\ out' = after(f, v) \o Tail(out)
             /\ marks' = [marks EXCEPT !.written = marked(f, v, @)]
    /\ UNCHANGED <<in, verdict>>

(* Fault: the decoder forgets the value later fields are compared with. *)
get_forgetful ==
    /\ verdict = "open" /\ token # <<>>
    /\ token' = <<>> /\ UNCHANGED <<out, marks>>
    /\ LET v == token[1].value
           f == Head(in)
       IN IF in # <<>> /\ Bytes[f.type] = token[1].bytes /\ accepts(f, v)
          THEN in' = after(f, v) \o Tail(in) /\ UNCHANGED verdict
          ELSE verdict' = "refused" /\ UNCHANGED in

get ==
    /\ verdict = "open" /\ token # <<>>
    /\ token' = <<>> /\ UNCHANGED out
    /\ LET v == token[1].value
           f == Head(in)
       IN IF in # <<>> /\ Bytes[f.type] = token[1].bytes /\ accepts(f, v)
          THEN /\ in' = after(f, v) \o Tail(in)
               /\ marks' = [marks EXCEPT !.read = marked(f, v, @)]
               /\ UNCHANGED verdict
          ELSE verdict' = "refused" /\ UNCHANGED <<in, marks>>

expect_end ==
    /\ verdict = "open" /\ out = <<>> /\ token = <<>>
    /\ verdict' = IF in = <<>> THEN "idle" ELSE "refused"
    /\ UNCHANGED <<out, in, token, marks>>

Next == begin \/ put \/ get \/ expect_end

Spec == Init /\ [][Next]_vars

-----------------------------------------------------------------------------
(***************************************************************************)
(* Whatever a process of the fabric encodes, the decoder of its peer, or   *)
(* of its own next start, takes: no message and no log record that the     *)
(* code writes is refused by decode_* as malformed, truncated or trailing. *)
(***************************************************************************)
EncodedIsDecoded == verdict # "refused"

=============================================================================
