------------------------------ MODULE RankArchive ------------------------------
(***************************************************************************)
(* The worker's archive of historical rank scans (worker.mjs): a scan with *)
(* its candidates is frozen before its outcomes are known, outcomes label  *)
(* the candidates once, and a recovery from another venue may label only   *)
(* what the first venue could not.  Requests are answered by one or more   *)
(* statements of the database with awaits in between, and a client sends   *)
(* again whatever it has no answer to.                                     *)
(***************************************************************************)
EXTENDS Naturals, FiniteSets

CONSTANTS
    Ids,           \* candidate ids, the same in every rebuild of the scan
    Rebuilds,      \* the candidates of the rebuilds: a rank for some ids, 0 where the geometry is invalid
    Hashes,        \* snapshot hashes a rebuild of the scan can have
    Results,       \* resolved labels
    Clients        \* requests under way

None == "none"
Gap == "UNRESOLVED_DATA_GAP"
Pending == "PENDING_OUTCOME"

VARIABLES
    snapshot,      \* the hash of the stored scan
    rows,          \* the stored candidates: rank (0: not rankable) and label
    sequences,     \* candidates with a stored candle sequence
    clients        \* requests under way

vars == <<snapshot, rows, sequences, clients>>

-----------------------------------------------------------------------------
(* Payloads                                                                *)

\* "ranks must be a contiguous frozen order": the ranked rows come in the order of their ranks.
Contiguous(u) ==
    LET ranked == {c \in DOMAIN u : u[c] # 0}
    IN {u[c] : c \in ranked} = 1..Cardinality(ranked)

Idle == [kind |-> "idle"]
Snapshot == [hash : Hashes, universe : {u \in Rebuilds : Contiguous(u)}, sequenced : BOOLEAN]
\* historicalRankTarget: a complete result or a data gap, each candidate once.
Labels == {Gap} \cup Results
Outcome == [kind : {"outcome", "recovery"}, ids : SUBSET Ids \ {{}}]

Init ==
    /\ snapshot = None
    /\ rows = [c \in {} |-> 0]
    /\ sequences = {}
    /\ clients = [k \in Clients |-> Idle]

Send(k, r) == clients' = [clients EXCEPT ![k] = r]
Stored == UNCHANGED <<snapshot, rows, sequences>>

-----------------------------------------------------------------------------
(* Freezing a scan                                                         *)

\* The payload is valid, and the stored snapshot is read.
SnapshotRead(k) ==
    /\ clients[k] = Idle
    /\ \E p \in Snapshot :
          /\ snapshot \in {None, p.hash}          \* else 409
          /\ Send(k, [kind |-> "batch", hash |-> p.hash, universe |-> p.universe,
                      sequenced |-> p.sequenced, existed |-> snapshot # None])
    /\ Stored

\* Mutant: only the primary key is unique.
KeyOnly(u) == {c \in DOMAIN u : c \notin DOMAIN rows}

\* INSERT OR IGNORE: a candidate whose id, or whose rank in the scan, is taken stays out.
Fresh(u) ==
    {c \in DOMAIN u :
        /\ c \notin DOMAIN rows
        /\ u[c] # 0 => \A d \in DOMAIN rows : rows[d].rank # u[c]}

\* One batch: the snapshot's INSERT is not OR IGNORE, and a sequence needs its candidate.
SnapshotBatch(k) ==
    /\ clients[k].kind = "batch"
    /\ LET p == clients[k]
           added == Fresh(p.universe)
           sequenced == IF p.sequenced THEN {c \in DOMAIN p.universe : p.universe[c] # 0} ELSE {}
           fails == (~p.existed /\ snapshot # None) \/ ~(sequenced \subseteq DOMAIN rows \cup added)
       IN IF fails THEN Stored
          ELSE /\ snapshot' = p.hash
               /\ rows' = [c \in DOMAIN rows \cup added |->
                               IF c \in DOMAIN rows THEN rows[c] ELSE [rank |-> p.universe[c], label |-> Pending]]
               /\ sequences' = sequences \cup sequenced
    /\ Send(k, Idle)

-----------------------------------------------------------------------------
(* Labelling it                                                            *)

OutcomeSent(k) ==
    /\ clients[k] = Idle
    /\ \E r \in Outcome : Send(k, r)
    /\ Stored

\* The label a statement may replace: targets_json LIKE ...
Replaces(kind) == IF kind = "outcome" THEN {Pending} ELSE {Gap}

\* One UPDATE for one row of the request; the request may end after any of them.
Label(k, c) ==
    /\ clients[k].kind \in {"outcome", "recovery"}
    /\ c \in clients[k].ids
    /\ LET r == clients[k]
           rest == r.ids \ {c}
           applies == c \in DOMAIN rows /\ rows[c].label \in Replaces(r.kind)
       IN /\ \E l \in Labels : rows' = IF applies THEN [rows EXCEPT ![c].label = l] ELSE rows
          /\ Send(k, IF rest = {} THEN Idle ELSE [r EXCEPT !.ids = rest])
    /\ UNCHANGED <<snapshot, sequences>>

\* The worker ends, or a statement fails, between two updates.
Cut(k) ==
    /\ clients[k] # Idle
    /\ Send(k, Idle)
    /\ Stored

Next ==
    \E k \in Clients :
        \/ SnapshotRead(k) \/ SnapshotBatch(k) \/ OutcomeSent(k) \/ Cut(k)
        \/ \E c \in Ids : Label(k, c)

-----------------------------------------------------------------------------
(* Properties                                                              *)

\* What one step may do to a stored scan: its snapshot, ranks and sequences are immutable,
\* its ranks stay a frozen order 1, 2, ..., a data gap is only ever recovered and "an existing
\* resolved label can never be overwritten by a later proxy source".
Frozen ==
    /\ snapshot # None => snapshot' = snapshot
    /\ sequences \subseteq sequences'
    /\ \A c \in DOMAIN rows :
          /\ c \in DOMAIN rows'
          /\ rows'[c].rank = rows[c].rank
          /\ rows[c].label \in Results => rows'[c].label = rows[c].label
          /\ rows[c].label = Gap => rows'[c].label # Pending
    /\ snapshot' # None =>
          LET ranked == {c \in DOMAIN rows' : rows'[c].rank # 0}
          IN \A c, d \in ranked : rows'[c].rank = rows'[d].rank => c = d
=============================================================================
