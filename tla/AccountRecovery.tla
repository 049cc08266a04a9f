-------------------------- MODULE AccountRecovery --------------------------
(***************************************************************************)
(* What a guardian account promises its two parties.  Together they may    *)
(* do anything; one of them alone may only announce who replaces the       *)
(* other, and make it so between one and two periods later.  Nothing is    *)
(* left of an announcement whose time is over.  There are no slots, kinds, *)
(* statuses or attempts here, and no transaction that finds an escape      *)
(* which expired long ago: ArgentAccount has them.                         *)
(***************************************************************************)
EXTENDS Integers

CONSTANTS
    Signers,          \* whoever may own the account or back the guardian up
    GuardianSigners,  \* whoever may be its guardian
    None,             \* nobody
    DefaultPeriod,
    MinPeriod,
    Start             \* time of the deployment

VARIABLES
    owner,
    guardian,
    backup,
    period,
    announcement,     \* for whose role, to whom, when it opens and closes
    now,
    by                \* who signed the transaction this state is from

roles == <<owner, guardian, backup, period>>
vars == <<roles, announcement, now, by>>

NoAnnouncement == [for |-> "None", new |-> None, opens |-> 0, closes |-> 0]

ByOwner == owner \in by'
ByGuardian == guardian # None /\ {guardian, backup} \cap (by' \ {None}) # {}
ByBoth == ByOwner /\ (guardian # None => ByGuardian)

\* Both parties change the roles, which ends an announcement, or only end it;
\* the period they change when there is none.
Agree ==
    /\ ByBoth
    /\ owner' \in Signers
    /\ owner' # owner => owner' \in by'
    /\ guardian' \in GuardianSigners \cup {None}
    /\ backup' \in Signers \cup {None}
    /\ guardian' = None => backup' = None
    /\ period' # period => announcement = NoAnnouncement /\ period' >= MinPeriod
    /\ announcement' \in {announcement, NoAnnouncement}
    /\ announcement' # NoAnnouncement => UNCHANGED roles
    /\ UNCHANGED now

Announce(for, new) ==
    /\ announcement' = [for |-> for, new |-> new,
                        opens |-> now + period, closes |-> now + 2 * period]
    /\ UNCHANGED <<roles, now>>

\* The guardian announces a new owner, unless the owner was faster.
AnnounceOwner ==
    /\ ByGuardian
    /\ announcement.for # "Guardian"
    /\ \E new \in Signers : Announce("Owner", new)

\* The owner announces a new guardian, or none if that leaves no backup behind.
AnnounceGuardian ==
    /\ ByOwner
    /\ guardian # None
    /\ \E new \in GuardianSigners \cup {None} :
        /\ new = None => backup = None
        /\ Announce("Guardian", new)

Open == announcement.opens <= now
Ended == announcement' = NoAnnouncement /\ UNCHANGED <<backup, period, now>>

CompleteOwner ==
    /\ ByGuardian
    /\ announcement.for = "Owner"
    /\ Open
    /\ owner' = announcement.new
    /\ guardian' = guardian
    /\ Ended

CompleteGuardian ==
    /\ ByOwner
    /\ announcement.for = "Guardian"
    /\ Open
    /\ guardian' = announcement.new
    /\ owner' = owner
    /\ Ended

\* A transaction that changes none of this.
NoEffect == UNCHANGED <<roles, announcement, now>>

\* Time goes on, and closes an announcement.
Tick ==
    /\ now' = now + 1
    /\ by' = {}
    /\ announcement' =
         IF announcement.closes <= now + 1 THEN NoAnnouncement ELSE announcement
    /\ UNCHANGED roles

Init ==
    /\ owner \in Signers
    /\ guardian \in GuardianSigners \cup {None}
    /\ backup = None
    /\ period = DefaultPeriod
    /\ announcement = NoAnnouncement
    /\ now = Start
    /\ by = {}

Next ==
    \/ Agree
    \/ AnnounceOwner
    \/ AnnounceGuardian
    \/ CompleteOwner
    \/ CompleteGuardian
    \/ NoEffect
    \/ Tick

Spec == Init /\ [][Next]_vars
=============================================================================
