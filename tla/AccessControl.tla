------------------------------ MODULE AccessControl ------------------------------
(* Who may do what and who is there: the logins that say who somebody is   *)
(* (Accounts), the role checks of the workspace (Access), and presence     *)
(* (Presence).  They share nothing: a token names a user, roles are held   *)
(* by users, and members are sockets. *)
EXTENDS Integers, FiniteSets

CONSTANTS
    Owner, Guests, Targets, Pods, Requests, MaxChanges, MaxFaults,   \* see Access
    Login,     \* who logs in: see Accounts
    Attempt,   \* the logins
    Sockets, PodOf, FileIds, MaxSwitches    \* see Presence

VARIABLES
    exists, isPublic, collab, redisReady, cache, suspect, request, changes, faults,
    users, attempt,
    page, lookingAt, unsent, members, hash, commands, answers, view, switches, failed, crossed

Roles == INSTANCE Access
Users == INSTANCE Accounts WITH Logins <- Login, Attempts <- Attempt
Present == INSTANCE Presence WITH active <- lookingAt, faults <- failed

(* "workspace" is the cache's key for the workspace itself. *)
ASSUME AccessAssumption ==
    /\ Owner \notin Guests \cup {"workspace"} /\ "workspace" \notin Guests
    /\ Targets \subseteq {"viewer", "editor", "admin"}
    /\ MaxChanges \in Nat /\ MaxFaults \in Nat
(* An email belongs to one GitHub account. *)
ASSUME LoginsAssumption ==
    \A l, m \in Login : ~Users!Demo(l) /\ ~Users!Demo(m) /\ l.email = m.email => l.github = m.github
(* What stands for an absent entry is neither a file nor null. *)
ASSUME PresenceAssumption ==
    /\ PodOf \in [Sockets -> Pods] /\ Present!Absent \notin FileIds \cup {0}
    /\ MaxSwitches \in Nat /\ MaxFaults \in Nat

accessVars == <<exists, isPublic, collab, redisReady, cache, suspect, request, changes, faults>>
accountVars == <<users, attempt>>
presenceVars == <<page, lookingAt, unsent, members, hash, commands, answers, view, switches, failed, crossed>>

AccessSpec == Roles!Spec /\ Users!Spec

(* Who a request is from and what it may do: no request is granted what    *)
(* its user did not hold while it was checked, and whoever logs in twice   *)
(* gets one account. *)
AccessIsCurrent == Roles!GrantsAreCurrent /\ Users!LoginsAgree

PresenceIsCurrent == Present!PresenceIsCurrent
=============================================================================
