---------------------------- MODULE WebSessions ----------------------------
(***************************************************************************)
(* The sessions of the web interface (storage/web_session.go,              *)
(* model/web_session.go, ui/web_session_middleware.go) and the handlers    *)
(* that change one.  A request loads the session of its cookie, or creates *)
(* one; the handler changes the copy in memory; when the handler is done   *)
(* the whole copy is written back if anything in it changed.  A log-in     *)
(* gives the row a new identity at once.  Requests of one browser overlap. *)
(*                                                                         *)
(* A session is reduced to what the properties tell apart: its user, the   *)
(* challenge pending in either flow that can log in without a password,    *)
(* and whether a forced refresh was noted less than an interval ago.       *)
(* Messages and preferences only make a copy dirty.                        *)
(***************************************************************************)
EXTENDS Naturals

CONSTANTS Users, SessionIds, Requests, Challenges, NoUser, NoId, NoChallenge

ASSUME SessionsAssumption ==
    /\ NoUser \notin Users
    /\ NoId \notin SessionIds
    /\ NoChallenge \notin Challenges

VARIABLES
    users,      \* the users there are
    live,       \* identities that have a row in web_sessions
    row,        \* what the row of an identity holds
    cookie,     \* the identity in the browser's cookie
    phase,      \* how far a request is: idle, loaded, handled
    held,       \* the identity of the session a request works on
    copy,       \* its copy of that session
    dirty,      \* whether that copy was changed
    given,      \* the cookie its response will set
    used,       \* identities ever generated
    issued,     \* challenges ever generated
    won,        \* history: challenges that have logged somebody in
    twice,      \* history: challenges that have done so again
    out,        \* history: identities logged out by a request on its own
    spaced      \* history: identities whose forced refresh was noted by such a one

rowVars == <<users, live, row>>
jarVars == <<cookie, given>>
reqVars == <<phase, held, copy, dirty>>
idVars == <<used, issued>>
pastVars == <<won, twice, out, spaced>>
sessionVars == <<rowVars, jarVars, reqVars, idVars, pastVars>>

Flows == {"oauth2", "webauthn"}

Session == [user : Users \cup {NoUser},
            flow : [Flows -> Challenges \cup {NoChallenge}],
            forced : BOOLEAN]

NewWebSession == [user |-> NoUser, flow |-> [f \in Flows |-> NoChallenge],
                  forced |-> FALSE]

Running(r) == phase[r] # "idle"
Alone(r) == \A q \in Requests \ {r} : ~(Running(q) /\ held[q] = held[r])
Authenticated(r) == copy[r].user # NoUser

SessionsInit ==
    /\ users = Users
    /\ live = {} /\ row = [i \in SessionIds |-> NewWebSession]
    /\ cookie = NoId /\ given = [r \in Requests |-> NoId]
    /\ phase = [r \in Requests |-> "idle"] /\ held = [r \in Requests |-> NoId]
    /\ copy = [r \in Requests |-> NewWebSession] /\ dirty = [r \in Requests |-> FALSE]
    /\ used = {} /\ issued = {} /\ won = {} /\ twice = {} /\ out = {} /\ spaced = {}

---------------------------------------------------------------------------
(* The middleware: before and after a handler. *)

\* The cookie names a session that is still there.
LoadSession(r) ==
    /\ phase[r] = "idle" /\ cookie \in live
    /\ phase' = [phase EXCEPT ![r] = "loaded"]
    /\ held' = [held EXCEPT ![r] = cookie]
    /\ copy' = [copy EXCEPT ![r] = row[cookie]]
    /\ UNCHANGED <<rowVars, jarVars, dirty, idVars, pastVars>>

\* No cookie, or one whose session is gone: a fresh session, of nobody.
CreateSession(r) ==
    /\ phase[r] = "idle" /\ cookie \notin live
    /\ \E i \in SessionIds \ used :
          /\ live' = live \cup {i} /\ used' = used \cup {i}
          /\ row' = [row EXCEPT ![i] = NewWebSession]
          /\ held' = [held EXCEPT ![r] = i]
          /\ given' = [given EXCEPT ![r] = i]
    /\ phase' = [phase EXCEPT ![r] = "loaded"]
    /\ copy' = [copy EXCEPT ![r] = NewWebSession]
    /\ UNCHANGED <<users, cookie, dirty, issued, pastVars>>

\* The UPDATE finds its row, and the user it refers to still exists.
CanWrite(i, s) == i \in live /\ s.user \in users \cup {NoUser}

\* What the end of a request writes.
SavedRow(r) ==
    IF dirty[r] /\ CanWrite(held[r], copy[r])
    THEN [row EXCEPT ![held[r]] = copy[r]] ELSE row

\* A request that saved a logout, or a forced refresh, while no other worked
\* on the same session.
NoteQuietSaves(r) ==
    LET saved == dirty[r] /\ CanWrite(held[r], copy[r])
        i == held[r]
    IN /\ out' = IF saved /\ Alone(r) /\ row[i].user # NoUser /\ ~Authenticated(r)
                 THEN out \cup {i} ELSE out
       /\ spaced' = IF saved /\ Alone(r) /\ ~row[i].forced /\ copy[r].forced
                    THEN spaced \cup {i} ELSE spaced

\* The handler has returned: a dirty session is saved, the browser gets the
\* cookie of the response unless the response is lost.
FinishRequest(r) ==
    /\ phase[r] # "idle"
    /\ row' = SavedRow(r)
    /\ NoteQuietSaves(r)
    /\ cookie' \in {cookie} \cup ({given[r]} \ {NoId})
    /\ phase' = [phase EXCEPT ![r] = "idle"]
    /\ held' = [held EXCEPT ![r] = NoId]
    /\ copy' = [copy EXCEPT ![r] = NewWebSession]
    /\ dirty' = [dirty EXCEPT ![r] = FALSE]
    /\ given' = [given EXCEPT ![r] = NoId]
    /\ UNCHANGED <<users, live, idVars, won, twice>>

\* A handler that meets a user who has been removed dereferences nil; the
\* server recovers, and nothing is saved.
Panic(r) ==
    /\ phase[r] = "loaded" /\ Authenticated(r) /\ copy[r].user \notin users
    /\ phase' = [phase EXCEPT ![r] = "idle"]
    /\ held' = [held EXCEPT ![r] = NoId]
    /\ copy' = [copy EXCEPT ![r] = NewWebSession]
    /\ given' = [given EXCEPT ![r] = NoId]
    /\ UNCHANGED <<rowVars, cookie, dirty, idVars, pastVars>>

---------------------------------------------------------------------------
(* The handlers: what one does to the copy of its request, or to the rows. *)

Change(r, s) ==
    /\ phase[r] = "loaded"
    /\ phase' = [phase EXCEPT ![r] = "handled"]
    /\ copy' = [copy EXCEPT ![r] = s]
    /\ dirty' = [dirty EXCEPT ![r] = TRUE]

ChangeOnly(r, s) ==
    /\ Change(r, s)
    /\ UNCHANGED <<rowVars, jarVars, held, used, pastVars>>

\* Wrong: the session keeps its identity.
RotatedNot(r, i) == held[r]

\* The identity a rotation gives to the session of request r.
Rotated(r, i) == i

\* authenticateWebSession: the copy gets its user and a new identity, and the
\* row, if it is still there, gets both at once.  When it is gone the request
\* is left with an identity that no row has.
Authenticate(r, s) ==
    \E i \in SessionIds \ used :
        LET n == Rotated(r, i)
            found == CanWrite(held[r], s)
        IN /\ Change(r, s)
           /\ held' = [held EXCEPT ![r] = n]
           /\ used' = used \cup {n}
           /\ live' = IF found THEN (live \ {held[r]}) \cup {n} ELSE live
           /\ row' = IF found THEN [row EXCEPT ![held[r]] = NewWebSession, ![n] = s] ELSE row
           /\ given' = IF found THEN [given EXCEPT ![r] = n] ELSE given
           /\ out' = out \ {held[r]}
           /\ spaced' = IF found /\ held[r] \in spaced
                        THEN (spaced \ {held[r]}) \cup {n} ELSE spaced
           /\ UNCHANGED <<users, cookie, issued>>

\* Wrong: a log-in begins with a new session.
CheckLoginAfresh(r) ==
    /\ \E u \in users : Authenticate(r, [NewWebSession EXCEPT !.user = u])
    /\ UNCHANGED <<won, twice>>

\* A password, or a trusted proxy's header.
CheckLogin(r) ==
    /\ \E u \in users : Authenticate(r, [copy[r] EXCEPT !.user = u])
    /\ UNCHANGED <<won, twice>>

\* A proxy's header counts only while nobody is logged in.
ProxyLogin(r) == ~Authenticated(r) /\ CheckLogin(r)

\* oauth2Redirect, beginLogin, beginRegistration: a new challenge is pending.
StartFlow(r, f) ==
    \E c \in Challenges \ issued :
        /\ issued' = issued \cup {c}
        /\ ChangeOnly(r, [copy[r] EXCEPT !.flow[f] = c])

\* The answer to the pending challenge takes it out of the copy, ...
Consumed(r, f) == [copy[r] EXCEPT !.flow[f] = NoChallenge]

\* ... also when the provider, or the check of the credential, says no, and
\* when somebody who is logged in links an account or registers a credential.
AnswerWithoutLogin(r, f) ==
    /\ copy[r].flow[f] # NoChallenge
    /\ ChangeOnly(r, Consumed(r, f))
    /\ UNCHANGED issued

\* What logs a user in.
LoginBy(r, f) ==
    /\ copy[r].flow[f] # NoChallenge
    /\ \E u \in users : Authenticate(r, [Consumed(r, f) EXCEPT !.user = u])
    /\ IF CanWrite(held[r], copy'[r])
       THEN /\ won' = won \cup {copy[r].flow[f]}
            /\ twice' = twice \cup (won \cap {copy[r].flow[f]})
       ELSE UNCHANGED <<won, twice>>

\* The OAuth2 callback of a session of nobody logs in.
OAuth2Callback(r) == ~Authenticated(r) /\ LoginBy(r, "oauth2")

\* finishLogin does not ask who is logged in already.
FinishLogin(r) == LoginBy(r, "webauthn")

Logout(r) ==
    /\ Authenticated(r) /\ copy[r].user \in users
    /\ ChangeOnly(r, [copy[r] EXCEPT !.user = NoUser])
    /\ UNCHANGED issued

\* Saved settings bind the session to its user again.
UpdateSettings(r) ==
    /\ Authenticated(r) /\ copy[r].user \in users
    /\ ChangeOnly(r, copy[r])
    /\ UNCHANGED issued

\* A page that shows, or a handler that leaves, a message for the next page.
ShowMessage(r) ==
    /\ ChangeOnly(r, copy[r])
    /\ UNCHANGED issued

\* Too soon after the last one: only a message.
RefreshRefused(r) ==
    /\ Authenticated(r) /\ copy[r].forced
    /\ ChangeOnly(r, copy[r])
    /\ UNCHANGED issued

\* refreshAllFeeds, refreshCategory: jobs are pushed and the time is noted.
ForceRefresh(r) ==
    /\ Authenticated(r) /\ ~copy[r].forced
    /\ ChangeOnly(r, [copy[r] EXCEPT !.forced = TRUE])
    /\ UNCHANGED issued

Deleted(ids) ==
    /\ live' = live \ ids
    /\ row' = [i \in SessionIds |-> IF i \in ids THEN NewWebSession ELSE row[i]]

\* Removing a session from the list of the user's sessions.
RemoveSession(r) ==
    /\ phase[r] = "loaded" /\ Authenticated(r)
    /\ \E i \in live : row[i].user = copy[r].user /\ Deleted({i})
    /\ phase' = [phase EXCEPT ![r] = "handled"]
    /\ UNCHANGED <<users, jarVars, held, copy, dirty, idVars, pastVars>>

---------------------------------------------------------------------------
(* What happens without a request of this browser. *)

\* The clean-up task removes whatever is old, the command line everything.
CleanOldSessions ==
    /\ \E S \in (SUBSET live) \ {{}} : Deleted(S)
    /\ UNCHANGED <<users, jarVars, reqVars, idVars, pastVars>>

\* A user is removed, and every session with them.
RemoveSessionsOfUser ==
    /\ \E u \in users :
          /\ users' = users \ {u}
          /\ Deleted({i \in live : row[i].user = u})
    /\ UNCHANGED <<jarVars, reqVars, idVars, pastVars>>

\* The interval between forced refreshes passes.
IntervalPasses ==
    /\ spaced # {} \/ \E i \in live : row[i].forced
    /\ row' = [i \in SessionIds |-> [row[i] EXCEPT !.forced = FALSE]]
    /\ copy' = [r \in Requests |-> [copy[r] EXCEPT !.forced = FALSE]]
    /\ spaced' = {}
    /\ UNCHANGED <<users, live, jarVars, phase, held, dirty, idVars, won, twice, out>>

Handle(r) ==
    \/ CheckLogin(r) \/ ProxyLogin(r) \/ OAuth2Callback(r) \/ FinishLogin(r)
    \/ \E f \in Flows : StartFlow(r, f) \/ AnswerWithoutLogin(r, f)
    \/ Logout(r) \/ UpdateSettings(r) \/ ShowMessage(r)
    \/ RefreshRefused(r) \/ ForceRefresh(r) \/ RemoveSession(r)

ServeRequest(r) == LoadSession(r) \/ CreateSession(r) \/ Handle(r) \/ Panic(r) \/ FinishRequest(r)

SessionsNext ==
    \/ \E r \in Requests : ServeRequest(r)
    \/ CleanOldSessions \/ RemoveSessionsOfUser \/ IntervalPasses

SessionsSpec == SessionsInit /\ [][SessionsNext]_sessionVars

---------------------------------------------------------------------------
(* Properties. *)

SessionsTypeOK ==
    /\ users \subseteq Users
    /\ live \subseteq used /\ used \subseteq SessionIds
    /\ row \in [SessionIds -> Session]
    /\ cookie \in SessionIds \cup {NoId}
    /\ given \in [Requests -> SessionIds \cup {NoId}]
    /\ phase \in [Requests -> {"idle", "loaded", "handled"}]
    /\ held \in [Requests -> used \cup {NoId}]
    /\ copy \in [Requests -> Session]
    /\ dirty \in [Requests -> BOOLEAN]
    /\ issued \subseteq Challenges

\* What a request saves while no other works on its session is not undone by
\* requests that come later: after a logout the identity has no user until a
\* log-in replaces it, and a forced refresh stays noted until its interval has
\* passed.  A request already in progress at the save could undo either, as it
\* writes back all it has read (web_session_middleware.go).
QuietSavesAreKept ==
    /\ \A i \in out \cap live : row[i].user = NoUser
    /\ \A i \in spaced \cap live : row[i].forced

\* An OAuth2 state or a WebAuthn challenge logs in at most once, however many
\* requests have read it before the first of them takes it out: the log-in
\* replaces the identity under which the others would write.
ChallengesLogInOnce == twice = {}
===========================================================================
