--------------------------- MODULE CustomerClient ---------------------------
(***************************************************************************)
(* The customer front end: App.jsx with its scan coordinator, its journal  *)
(* on the device, the cloud journal of an account and the session of the   *)
(* authentication service.  Scans, journal reads, takes and allowance      *)
(* reads are answered later, in any order, while the user signs in and     *)
(* out.                                                                    *)
(***************************************************************************)
EXTENDS Naturals, FiniteSets

CONSTANTS
    Users,          \* accounts
    Guest,          \* the session without an account
    Recommendations,\* what the Worker may recommend (scan_snapshot_id)
    NoScan,         \* nothing to show
    MaxScans        \* bound: scans begun

Principals == Users \union {Guest}

VARIABLES
    session,        \* who the authentication service says is signed in
    user,           \* who App believes is signed in
    sequence,       \* scan requests begun (the coordinator's sequence)
    active,         \* the coordinator's current request, 0 when there is none
    flight,         \* scan requests not yet answered or aborted: id -> principal
    scanning, scan, fresh,      \* what the page shows, and whether it is recent
    records,        \* the journal shown
    local,          \* the journal in localStorage
    cloud,          \* cloud[u]: the trades of account u
    reads, takes,   \* cloud journal requests in flight
    asked, account  \* allowance requests in flight, and whose allowance is shown

scanVars == <<sequence, active, flight, scanning, scan, fresh>>
journalVars == <<records, local, cloud, reads, takes>>
vars == <<session, user, scanVars, journalVars, asked, account>>

\* A record of the device is known by its recommendation, a row of the cloud by
\* the scan it was taken from (0: an earlier visit).
Device(what) == [what |-> what, owner |-> Guest, scan |-> 0]
Row(what, owner, id) == [what |-> what, owner |-> owner, scan |-> id]
Shown == [id : 1..MaxScans, what : Recommendations, owner : Principals]

Init ==
    /\ session \in Principals
    /\ user = Guest
    /\ sequence = 0 /\ active = 0 /\ flight = <<>>
    /\ scanning = FALSE /\ scan = NoScan /\ fresh = FALSE
    /\ local \in {{}, {Device(r) : r \in Recommendations}}
    /\ records = local
    /\ cloud \in [Users -> SUBSET {Row(r, u, 0) : r \in Recommendations, u \in Users}]
    /\ \A u \in Users : \A row \in cloud[u] : row.owner = u
    /\ reads = {} /\ takes = {} /\ asked = {} /\ account = NoScan

-----------------------------------------------------------------------------
\* The session.  hydrate and subscribeAuth set the user and ask for the
\* allowance; the journal effect then shows the local journal to a guest and
\* asks for the cloud journal of an account.

Becomes(who) ==
    /\ user' = who
    /\ asked' = asked \union {who}
    /\ IF who = Guest
       THEN records' = local /\ reads' = reads
       ELSE records' = records /\ reads' = reads \union {who}
    /\ UNCHANGED <<local, cloud, takes, account>>

Hydrate ==
    /\ user # session
    /\ Becomes(session)
    /\ UNCHANGED <<session, scanVars>>

SignIn(who) ==
    /\ session = Guest
    /\ session' = who
    /\ Becomes(who)
    /\ UNCHANGED scanVars

\* logout() clears the allowance as well.
SignOut ==
    /\ session # Guest /\ user = session
    /\ session' = Guest
    /\ user' = Guest
    /\ asked' = asked \union {Guest}
    /\ account' = NoScan
    /\ records' = local
    /\ UNCHANGED <<scanVars, local, cloud, reads, takes>>

Allowance(who) ==
    /\ who \in asked
    /\ asked' = asked \ {who}
    /\ account' \in {who, NoScan}
    /\ UNCHANGED <<session, user, scanVars, journalVars>>

CloudJournal(who) ==
    /\ who \in reads
    /\ reads' = reads \ {who}
    /\ records' \in {cloud[who], records}
    /\ UNCHANGED <<session, user, scanVars, local, cloud, takes, asked, account>>

-----------------------------------------------------------------------------
\* Scans.  begin() aborts the request before, which still ends later: with a
\* failure, or with the answer that had already arrived.

StartScan ==
    /\ sequence < MaxScans
    /\ sequence' = sequence + 1
    /\ active' = sequence + 1
    /\ flight' = [id \in DOMAIN flight \union {sequence + 1} |->
                     IF id = sequence + 1 THEN user ELSE flight[id]]
    /\ scanning' = TRUE /\ scan' = NoScan /\ fresh' = FALSE
    /\ UNCHANGED <<session, user, journalVars, asked, account>>

AnyIsCurrent(id) == id \in 1..MaxScans
IsCurrent(id) == active = id

SettledStillScanning(id) ==
    /\ flight' = [other \in DOMAIN flight \ {id} |-> flight[other]]
    /\ active' = IF IsCurrent(id) THEN 0 ELSE active
    /\ UNCHANGED <<session, user, sequence, scanning, journalVars, asked>>

Settled(id) ==
    /\ flight' = [other \in DOMAIN flight \ {id} |-> flight[other]]
    /\ active' = IF IsCurrent(id) THEN 0 ELSE active
    /\ scanning' = IF IsCurrent(id) THEN FALSE ELSE scanning
    /\ UNCHANGED <<session, user, sequence, journalVars, asked>>

\* A response that parses, with or without a market-valid trade.
Answered(id) ==
    \E shown \in {NoScan} \union {s \in Shown : s.id = id /\ s.owner = flight[id]} :
        /\ scan' = IF IsCurrent(id) THEN shown ELSE scan
        /\ fresh' = IF IsCurrent(id) THEN shown # NoScan ELSE fresh
        /\ account' = IF IsCurrent(id) THEN flight[id] ELSE account
        /\ Settled(id)

\* A refusal, a response that does not parse, a timeout of 60 s or an abort.
Failed(id) ==
    /\ scan' = IF IsCurrent(id) THEN NoScan ELSE scan
    /\ fresh' = IF IsCurrent(id) THEN FALSE ELSE fresh
    /\ account' = account
    /\ Settled(id)

\* Fifteen minutes after the scan isScanFresh says no.
Expires ==
    /\ fresh
    /\ fresh' = FALSE
    /\ UNCHANGED <<session, user, sequence, active, flight, scanning, scan, journalVars, asked, account>>

-----------------------------------------------------------------------------
\* The journal.

\* hasJournalAcceptance, and the page's isCurrentTradeTaken.
Taken == \E record \in records :
            \/ record.owner = Guest /\ record.what = scan.what
            \/ record.owner # Guest /\ record.scan = scan.id
TakeTradeEnabled == scan # NoScan /\ fresh /\ ~Taken

\* A scan made for an account carries the id of a stored recommendation.
TakeCloud ==
    /\ TakeTradeEnabled
    /\ user # Guest /\ scan.owner # Guest
    /\ takes' = takes \union {[by |-> user, row |-> Row(scan.what, scan.owner, scan.id)]}
    /\ UNCHANGED <<session, user, scanVars, records, local, cloud, reads, asked, account>>

\* saveAcceptedTrade writes the journal it is shown, the new record first.
SaveAcceptedTrade ==
    /\ TakeTradeEnabled
    /\ user = Guest \/ scan.owner = Guest
    /\ records' = records \union {Device(scan.what)}
    /\ local' = records'
    /\ UNCHANGED <<session, user, scanVars, cloud, reads, takes, asked, account>>

\* The Worker stores a trade of the account's own recommendation, once.
Stored(take) == take.by = take.row.owner /\ take.row \notin cloud[take.by]
Storing(take) == [cloud EXCEPT ![take.by] = @ \union {take.row}]

TakeAnswered(take) ==
    /\ takes' = takes \ {take}
    /\ cloud' = IF Stored(take) THEN Storing(take) ELSE cloud
    /\ records' = IF Stored(take) THEN records \union {take.row} ELSE records
    /\ UNCHANGED <<session, user, scanVars, local, reads, asked, account>>

\* The answer is lost, before the trade is stored or after.
TakeLost(take) ==
    /\ takes' = takes \ {take}
    /\ cloud' \in {cloud, IF Stored(take) THEN Storing(take) ELSE cloud}
    /\ UNCHANGED <<session, user, scanVars, records, local, reads, asked, account>>

RemoveLocal(record) ==
    /\ user = Guest
    /\ records' = records \ {record}
    /\ local' = records'
    /\ UNCHANGED <<session, user, scanVars, cloud, reads, takes, asked, account>>

Next ==
    \/ Hydrate \/ SignOut \/ StartScan \/ Expires \/ TakeCloud \/ SaveAcceptedTrade
    \/ \E who \in Users : SignIn(who) \/ CloudJournal(who)
    \/ \E who \in Principals : Allowance(who)
    \/ \E id \in DOMAIN flight : Answered(id) \/ Failed(id)
    \/ \E take \in takes : TakeAnswered(take) \/ TakeLost(take)
    \/ \E record \in records : RemoveLocal(record)

Spec == Init /\ [][Next]_vars /\ \A id \in 1..MaxScans : WF_vars(id \in DOMAIN flight /\ (Answered(id) \/ Failed(id)))

-----------------------------------------------------------------------------
\* Only the scan begun last may put anything on the page, and the page says it
\* is scanning exactly while that scan is out: createScanCoordinator "allows
\* only the latest response to become authoritative".
LatestScanOnly ==
    /\ scan # NoScan => scan.id = sequence /\ active = 0
    /\ scanning <=> active # 0
    /\ active # 0 => active = sequence /\ active \in DOMAIN flight

\* The page never scans for ever: the newest request is answered or times out.
ScanEnds == scanning ~> ~scanning

\* "Guest trades stay on this device" (MyTrades): a trade kept on the device is
\* there until the guest removes it.
GuestTradesStay ==
    [][\A record \in local :
          record \in local' \/ (user = Guest /\ records' = records \ {record})]_vars
=============================================================================
