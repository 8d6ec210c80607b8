------------------------------ MODULE HostTrust ------------------------------
(* Whether the key that a server presents may be trusted, for one endpoint:   *)
(* OpenSSH's known_hosts files, read once and never written, and the row of   *)
(* orza's own trusted_hosts table (hostkey/policy.go and                      *)
(* catalog/trusted_host_repository.go).  Another orza process uses the same   *)
(* table: it accepts keys and forgets the host (app/host_trust.go), each time *)
(* showing a row first and writing afterwards.                                *)
EXTENDS Naturals

CONSTANTS
    Keys,         \* the keys that the server may present
    MaxRevision,  \* the largest revision of a row
    MaxRows,      \* bound: rows the other process sees inserted
    None

ASSUME HostTrustAssumption ==
    /\ MaxRevision \in Nat \ {0}
    /\ MaxRows \in Nat \ {0}
    /\ None \notin Keys

VARIABLES
    files,        \* known_hosts: the keys listed for this host, and the revoked
    trusted,      \* the row of the trusted_hosts table, if any
    inserted,     \* rows inserted so far: each one has an id of its own
    other         \* the other process: what it shows to its user

trustVars == <<files, trusted, inserted, other>>

TrustedHost ==
    [id: 1 .. MaxRows + 1, key: Keys, revision: 1 .. MaxRevision]

Statuses == {"known", "unknown", "changed", "revoked"}

Idle == [doing |-> "nothing", key |-> None, shown |-> None]

TrustTypeOK ==
    /\ files \in [listed: SUBSET Keys, revoked: SUBSET Keys]
    /\ trusted \in TrustedHost \cup {None}
    /\ inserted \in 0 .. MaxRows + 1
    /\ other \in [doing: {"nothing", "forgetting", "deciding"},
                  key: Keys \cup {None}, shown: TrustedHost \cup {None}]

TrustInit ==
    /\ files \in [listed: SUBSET Keys, revoked: SUBSET Keys]
    /\ files.listed \cap files.revoked = {}
    /\ inserted \in 0 .. 1
    /\ trusted \in IF inserted = 0 THEN {None}
                   ELSE [id: {1}, key: Keys, revision: {1}]
    /\ other = Idle

---------------------------------------------------------------------------
(* Checking a key.                                                          *)

Standard(key) ==
    IF key \in files.revoked THEN "revoked"
    ELSE IF key \in files.listed THEN "known"
    ELSE IF files.listed = {} THEN "unknown" ELSE "changed"

\* Mutant: the table is asked first.
CheckTableFirst(key) ==
    IF trusted # None /\ trusted.key = key THEN [status |-> "known", row |-> trusted]
    ELSE IF Standard(key) \in {"known", "revoked"}
         THEN [status |-> Standard(key), row |-> None]
         ELSE [status |-> IF trusted = None THEN Standard(key) ELSE "changed",
               row |-> trusted]

\* A key that known_hosts knows or has revoked never reaches the table.
CheckHost(key) ==
    IF Standard(key) \in {"known", "revoked"}
    THEN [status |-> Standard(key), row |-> None]
    ELSE IF trusted = None
         THEN [status |-> Standard(key), row |-> None]
         ELSE [status |-> IF trusted.key = key THEN "known" ELSE "changed",
               row |-> trusted]

\* Mutant: everything that is not known is shown to the user.
DecidableUnlessKnown(checked) == checked.status # "known"

\* What the user may decide: a key that differs from known_hosts only, without
\* a row to replace, is refused before anyone is asked.
Decidable(checked) ==
    \/ checked.status = "unknown"
    \/ checked.status = "changed" /\ checked.row # None

RevisionOf(row) == IF row = None THEN 0 ELSE row.revision

---------------------------------------------------------------------------
(* The two writing transactions.  expected is the revision of the row that  *)
(* was shown, or 0 when there was none.                                     *)

TrustHostRefuses(key, expected) ==
    IF trusted = None THEN expected # 0
    ELSE /\ trusted.key # key
         /\ expected # trusted.revision \/ trusted.revision = MaxRevision

TrustHost(key, expected) ==
    /\ ~TrustHostRefuses(key, expected)
    /\ IF trusted = None
       THEN /\ inserted' = inserted + 1
            /\ trusted' = [id |-> inserted + 1, key |-> key, revision |-> 1]
       ELSE /\ inserted' = inserted
            /\ trusted' = IF trusted.key = key THEN trusted
                          ELSE [trusted EXCEPT !.key = key, !.revision = @ + 1]

DeleteTrustedHost(expected) ==
    /\ trusted # None /\ trusted.revision = expected
    /\ trusted' = None

---------------------------------------------------------------------------
(* The other process.                                                       *)

\* It shows the row that it would forget.
ForgetScope ==
    /\ other.doing = "nothing" /\ trusted # None
    /\ other' = [doing |-> "forgetting", key |-> None, shown |-> trusted]
    /\ UNCHANGED <<files, trusted, inserted>>

\* Its user confirms, or goes away.  A row with another revision is a conflict
\* and stays.
Forget ==
    /\ other.doing = "forgetting"
    /\ other' = Idle
    /\ \/ DeleteTrustedHost(other.shown.revision)
       \/ trusted' = trusted
    /\ UNCHANGED <<files, inserted>>

\* It connects to the same endpoint and shows the key to its user.
OtherAsks ==
    /\ other.doing = "nothing"
    /\ \E key \in Keys :
          /\ Decidable(CheckHost(key))
          /\ other' = [doing |-> "deciding", key |-> key, shown |-> CheckHost(key).row]
    /\ UNCHANGED <<files, trusted, inserted>>

OtherDecides ==
    /\ other.doing = "deciding"
    /\ other' = Idle
    /\ \/ /\ trusted = None => inserted < MaxRows
          /\ TrustHost(other.key, RevisionOf(other.shown))
       \/ UNCHANGED <<trusted, inserted>>
    /\ UNCHANGED files

OtherStep == ForgetScope \/ Forget \/ OtherAsks \/ OtherDecides
=============================================================================
