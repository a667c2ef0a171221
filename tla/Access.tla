------------------------------- MODULE Access -------------------------------
(***************************************************************************)
(* Who may change the router: claiming it, the administrator password, the *)
(* browser sessions issued under it, and the check that a request passes   *)
(* when it arrives and again when it holds the apply lock.                 *)
(*                                                                         *)
(* The password is in the configuration document and the sessions in the   *)
(* runtime database, so one can be saved and the other not.                *)
(***************************************************************************)
EXTENDS Naturals, FiniteSets, TLC

CONSTANTS
    Browsers,
    MaxSessions,   \* sessions that may be active at once
    MaxTime,       \* bound: the clock, in session lifetimes
    MaxPasswords,  \* bound: passwords set
    MaxTokens,     \* bound: sessions issued
    MaxFaults      \* bound: failed writes, restarts

Open == 0           \* a claimed router without a password
Unclaimed == 0 - 1

VARIABLES
    password,  \* Unclaimed, Open, or the hash now stored, which is never reused
    next,      \* the next hash
    sessions,  \* token -> [cred, expires], in memory
    disk,      \* the same, in the runtime database
    cookie,    \* browser -> its token, 0 for none
    token,     \* the next token
    request,   \* browser -> the request it has under way
    now,
    edits,     \* browser -> configuration writes made for it
    faults

vars == <<password, next, sessions, disk, cookie, token, request, now, edits, faults>>

NoRequest == [at |-> "none", cred |-> 0]
MayFail == faults < MaxFaults
Count(failed) == faults' = IF failed THEN faults + 1 ELSE faults

Live(ss) == [t \in {u \in DOMAIN ss : ss[u].expires > now} |-> ss[t]]
Without(ss, t) == [u \in DOMAIN ss \ {t} |-> ss[u]]

(* Valid: the session has not expired and was issued under this password.  *)
Valid(t) ==
    /\ t \in DOMAIN sessions
    /\ sessions[t].expires > now
    /\ sessions[t].cred = password

(* Authenticate's check, run when the request arrives.                     *)
Authorized(b) == password > Open => Valid(cookie[b])

(* Mutant of Guard: the request was checked when it arrived.               *)
GuardOnArrival(b) == TRUE

(* The same check, run again under the apply lock.                         *)
Guard(b) == Authorized(b)

Claimed == password # Unclaimed
RequiresPassword == password > Open

(***************************************************************************)
(* Requests.                                                               *)
(***************************************************************************)
Free(b) == request[b] = NoRequest
Finish(b) == request' = [request EXCEPT ![b] = NoRequest]

(* POST /access/claim is open to everyone on the local network, once.      *)
postClaim == \E p \in {Open, next} :
    /\ ~Claimed /\ next < MaxPasswords
    /\ password' = p
    /\ next' = next + 1
    /\ UNCHANGED <<sessions, disk, cookie, token, request, now, edits, faults>>

(* gateUnclaimed: an unclaimed router answers the claim and nothing else   *)
(* that could change it.                                                   *)
gateUnclaimed == Claimed

(* The handlers a request over TCP passes; the local socket has none.      *)
tcpListener(b) == Authorized(b) /\ gateUnclaimed

(* A mutating request arrives and waits for the lock.                      *)
Arrive == \E b \in Browsers, kind \in {"edit", "password"} :
    /\ Free(b) /\ tcpListener(b)
    /\ request' = [request EXCEPT ![b] = [at |-> kind, cred |-> 0]]
    /\ UNCHANGED <<password, next, sessions, disk, cookie, token, now, edits, faults>>

(* It holds the lock.  One whose authorization has gone is refused.        *)
Edit == \E b \in Browsers :
    /\ request[b].at = "edit"
    /\ Finish(b)
    /\ edits' = IF Guard(b) /\ edits[b] < 1 THEN [edits EXCEPT ![b] = @ + 1] ELSE edits
    /\ UNCHANGED <<password, next, sessions, disk, cookie, token, now, faults>>

(* SetPassword, then RevokeAll.  The second is not reached when the first  *)
(* fails, and leaves the sessions on disk when its own save does.          *)
SetPassword(p, saves, revokes) ==
    /\ saves => p = Open \/ next < MaxPasswords
    /\ ~(saves /\ revokes) => MayFail
    /\ Count(~(saves /\ revokes))
    /\ IF ~saves THEN UNCHANGED <<password, next, sessions, disk>>
       ELSE /\ password' = p
            /\ next' = IF p = next THEN next + 1 ELSE next
            /\ sessions' = <<>>
            /\ disk' = IF revokes THEN <<>> ELSE disk

putPassword == \E b \in Browsers, p \in {Open, next}, saves, revokes \in BOOLEAN :
    /\ request[b].at = "password"
    /\ IF ~Guard(b) THEN UNCHANGED <<password, next, sessions, disk, edits, faults>>
       ELSE /\ SetPassword(p, saves, revokes)
            /\ edits' = IF saves /\ edits[b] < 1 THEN [edits EXCEPT ![b] = @ + 1] ELSE edits
    /\ Finish(b)
    /\ UNCHANGED <<cookie, token, now>>

(* `olr set password` comes over the local socket, which is not checked.   *)
LocalPassword == \E p \in {Open, next}, saves, revokes \in BOOLEAN :
    /\ Claimed
    /\ SetPassword(p, saves, revokes)
    /\ UNCHANGED <<cookie, token, request, now, edits>>

(* postLogin compares the password outside the lock; Begin may refuse.     *)
Compare == \E b \in Browsers :
    /\ RequiresPassword /\ Free(b)
    /\ request' = [request EXCEPT ![b] = [at |-> "login", cred |-> password]]
    /\ UNCHANGED <<password, next, sessions, disk, cookie, token, now, edits, faults>>

Same(cred) == RequiresPassword /\ password = cred

(* Under the lock: the password is still the one that was compared, and a  *)
(* session is issued in place of the browser's old one.  A failed save     *)
(* puts the sessions back.                                                 *)
Issue == \E b \in Browsers, saves \in BOOLEAN :
    LET kept == Live(sessions)
        issued == (token :> [cred |-> request[b].cred, expires |-> now + 2]) @@ Without(kept, cookie[b])
    IN  /\ request[b].at = "login"
        /\ Finish(b)
        /\ ~saves => MayFail
        /\ Count(~saves)
        /\ IF ~Same(request[b].cred) THEN saves /\ UNCHANGED <<sessions, disk, cookie, token>>
           ELSE IF Cardinality(DOMAIN kept) >= MaxSessions
           THEN saves /\ sessions' = kept /\ UNCHANGED <<disk, cookie, token>>
           ELSE /\ token < MaxTokens
                /\ sessions' = IF saves THEN issued ELSE sessions
                /\ disk' = IF saves THEN issued ELSE disk
                /\ cookie' = IF saves THEN [cookie EXCEPT ![b] = token] ELSE cookie
                /\ token' = token + 1
        /\ UNCHANGED <<password, next, now, edits>>

(* Logout keeps the cookie when the database could not be written.         *)
Logout == \E b \in Browsers, saves \in BOOLEAN :
    /\ cookie[b] # 0 /\ Free(b)
    /\ ~saves => MayFail
    /\ Count(~saves)
    /\ sessions' = Without(sessions, cookie[b])
    /\ disk' = IF saves THEN Live(sessions') ELSE disk
    /\ cookie' = IF saves THEN [cookie EXCEPT ![b] = 0] ELSE cookie
    /\ UNCHANGED <<password, next, token, request, now, edits>>

(* OpenSessionsDB, after a stop or a crash; requests under way are gone.   *)
Restart ==
    /\ MayFail
    /\ faults' = faults + 1
    /\ sessions' = Live(disk)
    /\ request' = [b \in Browsers |-> NoRequest]
    /\ UNCHANGED <<password, next, disk, cookie, token, now, edits>>

Tick ==
    /\ now < MaxTime
    /\ now' = now + 1
    /\ UNCHANGED <<password, next, sessions, disk, cookie, token, request, edits, faults>>

Init ==
    /\ password = Unclaimed /\ next = 1
    /\ sessions = <<>> /\ disk = <<>>
    /\ cookie = [b \in Browsers |-> 0] /\ token = 1
    /\ request = [b \in Browsers |-> NoRequest]
    /\ now = 0 /\ edits = [b \in Browsers |-> 0] /\ faults = 0

Next ==
    \/ postClaim \/ Arrive \/ Edit \/ putPassword \/ LocalPassword
    \/ Compare \/ Issue \/ Logout \/ Restart \/ Tick

Spec == Init /\ [][Next]_vars

(***************************************************************************)
(* Properties.                                                             *)
(***************************************************************************)
(* A browser that is signed in, told from the stored password alone.       *)
SignedIn(b) ==
    password > Open =>
        /\ cookie[b] \in DOMAIN sessions
        /\ sessions[cookie[b]].cred = password /\ sessions[cookie[b]].expires > now

(* The router is never changed for a browser that is not signed in under   *)
(* the password now stored: a request that waited for the lock while the   *)
(* password changed, a session that a failed revocation or a restart left  *)
(* behind and a sign-in that raced a change are all refused (Authenticate, *)
(* auth.go:13; Valid, sessions.go:178; WithMutationGuard, core/lock.go:7). *)
EditorSignedIn == \A b \in Browsers : edits'[b] # edits[b] => SignedIn(b)

(* A new session is issued under the password stored at that moment, also  *)
(* when the password changes between the comparison and the lock           *)
(* (postLogin, http.go:181).                                               *)
IssuesCurrent ==
    \A t \in DOMAIN sessions' \ (DOMAIN sessions \cup DOMAIN disk) : sessions'[t].cred = password'

(* Both: whoever changes the document is signed in when the change is      *)
(* made, under a session issued for the password stored at the time.       *)
SignedInOnly == EditorSignedIn /\ IssuesCurrent

=============================================================================
