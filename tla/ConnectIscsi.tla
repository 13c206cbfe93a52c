---------------------------- MODULE ConnectIscsi ----------------------------
(***************************************************************************)
(* examples/block-storage/connect-iscsi.sh: for each portal a discovery, a *)
(* count of the sessions there are, and as many logins as are missing.     *)
(* The script is run again after a reboot, by a second operator, or after  *)
(* a run that stopped half way.                                            *)
(***************************************************************************)
EXTENDS Naturals, FiniteSets, Sequences

CONSTANTS
    TargetIps,      \* the portals, in the order the script takes them
    SessionCounts,  \* values of --sessions-per-portal
    Connections,    \* runs of the script
    HostTroubles    \* how many faults and moves of others there are

ASSUME ConnectAssumption ==
    /\ Len(TargetIps) \in Nat \ {0} /\ DOMAIN TargetIps = 1..Len(TargetIps)
    /\ SessionCounts \subseteq Nat /\ HostTroubles \in Nat

VARIABLES
    sessions,       \* pairs of a portal and an iface; 0 is "default", n is fsxn<n>
    lostOne,        \* a session was lost at some time
    hostTroubles,
    connection      \* [Connections -> what a run has read and done]

iscsiVars == <<sessions, lostOne, hostTroubles, connection>>

Portals == {TargetIps[i] : i \in DOMAIN TargetIps}

\* calm and found are not in the script: whether anything befell the run, and
\* the sessions there were when it began.
NewConnection ==
    [at |-> "idle", ip |-> 1, want |-> 0, have |-> 0, added |-> 0, outcome |-> "none",
     calm |-> TRUE, found |-> {}]

ConnectInit ==
    /\ sessions = {} /\ lostOne = FALSE /\ hostTroubles = HostTroubles
    /\ connection = [r \in Connections |-> NewConnection]

Connecting(r) == connection[r].at \notin {"idle", "done"}

SessionsOf(there, portal) == Cardinality({s \in there : s[1] = portal})

Portal(r) == TargetIps[connection[r].ip]

\* What happens to the host befalls every run there is.
Disturbed == [r \in Connections |-> [connection[r] EXCEPT !.calm = @ /\ ~Connecting(r)]]

Trouble == hostTroubles > 0 /\ hostTroubles' = hostTroubles - 1

Stops(c, outcome) == [c EXCEPT !.at = "done", !.outcome = outcome]

\* The head of the loop over the portals, for the next one.
NextPortal(c) ==
    IF c.ip = Len(TargetIps) THEN Stops(c, "ok") ELSE [c EXCEPT !.at = "discover", !.ip = @ + 1]

Connect(r, want) ==
    /\ connection[r].at = "idle"
    /\ connection' = [Disturbed EXCEPT ![r] =
                        [NewConnection EXCEPT !.at = "discover", !.want = want, !.found = sessions,
                                              !.calm = \A other \in Connections : ~Connecting(other)]]
    /\ UNCHANGED <<sessions, lostOne, hostTroubles>>

Discover(r) ==
    /\ connection[r].at = "discover"
    /\ connection' = [connection EXCEPT ![r].at = "count"]
    /\ UNCHANGED <<sessions, lostOne, hostTroubles>>

\* What is missing is logged in; a portal with enough is skipped.
Counted(c, have) ==
    IF have >= c.want THEN NextPortal(c) ELSE [c EXCEPT !.at = "login", !.have = have, !.added = 0]

CountSessions(r) ==
    /\ connection[r].at = "count"
    /\ connection' = [connection EXCEPT ![r] = Counted(@, SessionsOf(sessions, Portal(r)))]
    /\ UNCHANGED <<sessions, lostOne, hostTroubles>>

\* `iscsiadm -m session' that fails counts as no session.
CountFails(r) ==
    /\ connection[r].at = "count" /\ Trouble
    /\ connection' = [Disturbed EXCEPT ![r] = Counted(Disturbed[r], 0)]
    /\ UNCHANGED <<sessions, lostOne>>

\* Mutant: the ifaces are numbered by what this run added.
MutIface(c) == c.added

\* The iface is named after the index of the session, "so a re-run finds the same ifaces".
Iface(c) == c.have + c.added

\* iscsid has one session per portal and iface, and refuses a second.
Login(r) ==
    LET c == connection[r]
        session == <<Portal(r), Iface(c)>>
        more == [c EXCEPT !.added = @ + 1]
    IN  /\ c.at = "login"
        /\ IF session \in sessions
           THEN /\ connection' = [connection EXCEPT ![r] = Stops(@, "failed")]
                /\ UNCHANGED sessions
           ELSE /\ sessions' = sessions \cup {session}
                /\ connection' = [connection EXCEPT ![r] =
                                    IF more.have + more.added < more.want THEN more ELSE NextPortal(more)]
        /\ UNCHANGED <<lostOne, hostTroubles>>

\* The portal refuses or does not answer, or the script is interrupted.
ConnectStops(r) ==
    /\ Connecting(r) /\ Trouble
    /\ connection' = [Disturbed EXCEPT ![r] = Stops(Disturbed[r], "failed")]
    /\ UNCHANGED <<sessions, lostOne>>

LoseSession ==
    /\ Trouble /\ \E s \in sessions : sessions' = sessions \ {s}
    /\ lostOne' = TRUE /\ connection' = Disturbed

\* Somebody follows the documented procedure, `iscsiadm -m node -L all'.
OtherLogin ==
    /\ Trouble /\ sessions' = sessions \cup (Portals \X {0})
    /\ connection' = Disturbed /\ UNCHANGED lostOne

ConnectNext ==
    \/ \E r \in Connections :
         \/ \E want \in SessionCounts : Connect(r, want)
         \/ Discover(r) \/ CountSessions(r) \/ CountFails(r) \/ Login(r) \/ ConnectStops(r)
    \/ LoseSession \/ OtherLogin

(***************************************************************************)
(* Properties                                                              *)
(***************************************************************************)

\* "Idempotent": whatever runs before it left behind, a run that nothing befalls ends well,
\* and leaves on each portal as many sessions as it was asked for, or those there were
\* when there were more.  Once a session was lost this need not be so: the ifaces left
\* may not be the first ones, and the next login meets one that is in use.
CalmConnectSucceeds ==
    [][\A r \in Connections :
         LET before == connection[r]
             after == connection'[r]
             wanted(found) == IF found > after.want THEN found ELSE after.want
         IN  before.at # "done" /\ after.at = "done" /\ after.calm /\ ~lostOne =>
               /\ after.outcome = "ok"
               /\ \A p \in Portals :
                    SessionsOf(sessions', p) = wanted(SessionsOf(after.found, p))]_iscsiVars
=============================================================================
