------------------------------- MODULE SignIn -------------------------------
(***************************************************************************)
(* Signing in (server/core/auth.py, server/core/oauth2.py and the handlers *)
(* of server/app.py): sessions in the memory of each server process and in *)
(* a table they share, and OAuth sign-ins under way in a process's memory. *)
(* A handler is one step: a process runs its handlers one at a time, and   *)
(* what it shares with another process is one row in one statement. Whose  *)
(* session it is goes with the token and is left out.                      *)
(***************************************************************************)
EXTENDS Naturals, Functions
CONSTANTS
    Servers,     \* processes over one database: two while a deployment rolls
    Tokens, States, Codes,        \* drawn at random, never twice
    NoState,     \* of a session opened with a password
    SessionTtl,  \* SESSION_TTL_SEC
    StateTtl,    \* OAUTH_STATE_TTL_SEC
    CodeTtl,     \* the 120 seconds of an authorization code
    MaxTime      \* bound of the clock

ASSUME SignInConstants ==
    /\ NoState \notin States
    /\ {SessionTtl, StateTtl, CodeTtl, MaxTime} \subseteq Nat

VARIABLES
    now,
    memory,   \* _sessions of each process: tokens to their expiries
    disk,     \* auth_sessions: tokens to their expiries
    pending,  \* _pending_states of each process: states to their expiries
    codes,    \* _authorization_codes of each process: codes to their expiries
    begun,    \* history: the expiry of each state drawn
    minted,   \* history: the state each code was drawn for
    created,  \* history: the sessions opened, how, and whether their row was written
    newest,   \* history: the last state each process drew, until it is presented
    keepers   \* history: who may still serve a token that was logged out
vars == <<now, memory, disk, pending, codes, begun, minted, created, newest, keepers>>
sessions == <<memory, disk, created, keepers>>
signIns == <<pending, codes, begun, minted, newest>>

With(f, k, v) == [x \in DOMAIN f \cup {k} |-> IF x = k THEN v ELSE f[x]]
Without(f, k) == Restrict(f, DOMAIN f \ {k})
Nothing == [x \in {} |-> x]

Init ==
    /\ now = 0
    /\ memory = [s \in Servers |-> Nothing] /\ disk = Nothing
    /\ pending = [s \in Servers |-> Nothing] /\ codes = [s \in Servers |-> Nothing]
    /\ begun = Nothing /\ minted = Nothing /\ created = Nothing
    /\ newest = [s \in Servers |-> NoState] /\ keepers = Nothing

-----------------------------------------------------------------------------
(* Sessions. *)

\* create_session: the row may fail to be written, which is logged only.
CreateSession(s, st) ==
    \E t \in Tokens \ DOMAIN created, kept \in BOOLEAN :
        /\ memory' = [memory EXCEPT ![s] = With(memory[s], t, now + SessionTtl)]
        /\ disk' = IF kept THEN With(disk, t, now + SessionTtl) ELSE disk
        /\ created' = With(created, t, [expires |-> now + SessionTtl, state |-> st, kept |-> kept])
        /\ UNCHANGED keepers

\* authenticate_user, when the password is right.
Login(s) ==
    /\ CreateSession(s, NoState)
    /\ UNCHANGED <<now, signIns>>

\* What get_session_user finds in memory, and what it finds in the table.
CachedAlways(s, t) == t \in DOMAIN memory[s]
Cached(s, t) == t \in DOMAIN memory[s] /\ now <= memory[s][t]
StoredBefore(t) == t \in DOMAIN disk /\ now < disk[t]
Stored(t) == t \in DOMAIN disk /\ now <= disk[t]

Serves(s, t) == Cached(s, t) \/ Stored(t)

\* destroy_session: the row may fail to be deleted, which is logged only.
DestroyRowOnly(s, t) ==
    /\ disk' \in {disk, Without(disk, t)}
    /\ UNCHANGED memory
DestroySession(s, t) ==
    /\ memory' = [memory EXCEPT ![s] = Without(memory[s], t)]
    /\ disk' \in {disk, Without(disk, t)}

\* get_session_user past the process's memory: a row in time is cached.
CacheRow(s, t) ==
    /\ ~Cached(s, t) /\ Stored(t)
    /\ memory' = [memory EXCEPT ![s] = With(memory[s], t, disk[t])]
    /\ UNCHANGED <<now, disk, created, keepers, signIns>>

\* ... and one that has expired is destroyed.
DropRow(s, t) ==
    /\ ~Cached(s, t) /\ t \in DOMAIN disk /\ ~Stored(t)
    /\ DestroySession(s, t)
    /\ UNCHANGED <<now, created, keepers, signIns>>

Logout(s, t) ==
    /\ t \in DOMAIN created
    /\ DestroySession(s, t)
    /\ keepers' = With(keepers, t, IF t \in DOMAIN disk' THEN Servers
                                   ELSE {r \in Servers \ {s} : t \in DOMAIN memory[r]})
    /\ UNCHANGED <<now, created, signIns>>

-----------------------------------------------------------------------------
(* OAuth sign-in, with the identity provider that the server simulates. *)

\* _purge_expired_entries, as of an instant.
Unexpired(entries, at) == Restrict(entries, {k \in DOMAIN entries : entries[k] > at})

\* /auth/login. create_oauth_state purges as of the expiry of its new state.
DrawThenPurge(s) ==
    \E st \in States \ DOMAIN begun :
        /\ pending' = [pending EXCEPT ![s] =
               Unexpired(With(pending[s], st, now + StateTtl), now + StateTtl)]
        /\ codes' = [codes EXCEPT ![s] = Unexpired(codes[s], now + StateTtl)]
        /\ begun' = With(begun, st, now + StateTtl)
        /\ newest' = [newest EXCEPT ![s] = st]
        /\ UNCHANGED <<now, sessions, minted>>
BeginSignIn(s) ==
    \E st \in States \ DOMAIN begun :
        /\ pending' = [pending EXCEPT ![s] =
               With(Unexpired(pending[s], now + StateTtl), st, now + StateTtl)]
        /\ codes' = [codes EXCEPT ![s] = Unexpired(codes[s], now + StateTtl)]
        /\ begun' = With(begun, st, now + StateTtl)
        /\ newest' = [newest EXCEPT ![s] = st]
        /\ UNCHANGED <<now, sessions, minted>>

\* The provider's form, submitted for a state that a sign-in began with.
Authorize(s) ==
    \E c \in Codes \ DOMAIN minted, st \in DOMAIN begun :
        /\ codes' = [codes EXCEPT ![s] = With(codes[s], c, now + CodeTtl)]
        /\ minted' = With(minted, c, st)
        /\ UNCHANGED <<now, sessions, pending, begun, newest>>

\* consume_oauth_state.
PeekState(s, st) == pending' = [pending EXCEPT ![s] = Unexpired(pending[s], now)]
ConsumeState(s, st) == pending' = [pending EXCEPT ![s] = Without(Unexpired(pending[s], now), st)]

\* The session of a code that was exchanged.
OpenSession(s, c) == CreateSession(s, minted[c])

\* /auth/callback, also when the browser loads it again. A state that is not
\* pending is refused; one that is, is gone, whether its code is still good and
\* the user can be provisioned or not.
Refuse(s, c) ==
    /\ minted[c] \notin DOMAIN Unexpired(pending[s], now)
    /\ pending' = [pending EXCEPT ![s] = Unexpired(pending[s], now)]
    /\ codes' = [codes EXCEPT ![s] = Unexpired(codes[s], now)]
    /\ UNCHANGED <<now, sessions, begun, minted, newest>>

Accept(s, c) ==
    LET st == minted[c]
    IN  /\ st \in DOMAIN Unexpired(pending[s], now)
        /\ ConsumeState(s, st)
        /\ codes' = [codes EXCEPT ![s] = Without(Unexpired(codes[s], now), c)]
        /\ newest' = [newest EXCEPT ![s] = IF newest[s] = st THEN NoState ELSE newest[s]]
        /\ \/ /\ c \in DOMAIN Unexpired(codes[s], now)
              /\ OpenSession(s, c)
           \/ UNCHANGED sessions
        /\ UNCHANGED <<now, begun, minted>>

Callback(s) == \E c \in DOMAIN minted : Refuse(s, c) \/ Accept(s, c)

-----------------------------------------------------------------------------
Restart(s) ==
    /\ memory' = [memory EXCEPT ![s] = Nothing]
    /\ pending' = [pending EXCEPT ![s] = Nothing]
    /\ codes' = [codes EXCEPT ![s] = Nothing]
    /\ newest' = [newest EXCEPT ![s] = NoState]
    /\ UNCHANGED <<now, disk, begun, minted, created, keepers>>

Tick == now < MaxTime /\ now' = now + 1 /\ UNCHANGED <<sessions, signIns>>

SessionStep(s) == Login(s) \/ \E t \in Tokens : CacheRow(s, t) \/ DropRow(s, t) \/ Logout(s, t)
SignInStep(s) == BeginSignIn(s) \/ Authorize(s) \/ Callback(s)
Next == Tick \/ \E s \in Servers : SessionStep(s) \/ SignInStep(s) \/ Restart(s)
Spec == Init /\ [][Next]_vars

-----------------------------------------------------------------------------
(***************************************************************************)
(* Every table maps what was drawn to what belongs to it (auth.py:37,      *)
(* oauth2.py:26-27).                                                       *)
(***************************************************************************)
TypeOK ==
    /\ now \in Nat
    /\ DOMAIN created \subseteq Tokens /\ DOMAIN begun \subseteq States /\ DOMAIN minted \subseteq Codes
    /\ created \in [DOMAIN created -> [expires : Nat, state : DOMAIN begun \cup {NoState}, kept : BOOLEAN]]
    /\ begun \in [DOMAIN begun -> Nat] /\ minted \in [DOMAIN minted -> DOMAIN begun]
    /\ DOMAIN disk \subseteq DOMAIN created /\ disk \in [DOMAIN disk -> Nat]
    /\ DOMAIN keepers \subseteq DOMAIN created /\ keepers \in [DOMAIN keepers -> SUBSET Servers]
    /\ DOMAIN memory = Servers /\ DOMAIN pending = Servers /\ DOMAIN codes = Servers /\ DOMAIN newest = Servers
    /\ \A s \in Servers :
         /\ DOMAIN memory[s] \subseteq DOMAIN created /\ memory[s] \in [DOMAIN memory[s] -> Nat]
         /\ DOMAIN pending[s] \subseteq DOMAIN begun /\ pending[s] \in [DOMAIN pending[s] -> Nat]
         /\ DOMAIN codes[s] \subseteq DOMAIN minted /\ codes[s] \in [DOMAIN codes[s] -> Nat]
         /\ newest[s] \in DOMAIN begun \cup {NoState}

(***************************************************************************)
(* Whatever was written, deleted, cached or lost, no process serves a      *)
(* token that was not drawn, or past its session's time (auth.py:460-496). *)
(***************************************************************************)
ServedInTime ==
    \A s \in Servers, t \in Tokens :
        Serves(s, t) => t \in DOMAIN created /\ now <= created[t].expires

(***************************************************************************)
(* A session whose row was written and that nobody logged out is served by *)
(* every process to its last instant, across restarts (auth.py:427-450,    *)
(* 465-496).                                                               *)
(***************************************************************************)
SessionSurvives ==
    \A s \in Servers, t \in DOMAIN created \ DOMAIN keepers :
        created[t].kept /\ now <= created[t].expires => Serves(s, t)

(***************************************************************************)
(* A logout whose row was deleted lasts: only another process that had     *)
(* read the session by then, and has not restarted, still serves it        *)
(* (auth.py:494-512).                                                      *)
(***************************************************************************)
LogoutLasts ==
    \A s \in Servers, t \in DOMAIN keepers : Serves(s, t) => s \in keepers[t]

(***************************************************************************)
(* An OAuth state opens at most one session, however often the callback is *)
(* loaded and the form submitted (oauth2.py:111-113).                      *)
(***************************************************************************)
OneSessionPerState ==
    \A t, u \in DOMAIN created :
        created[t].state = created[u].state /\ created[t].state # NoState => t = u

(***************************************************************************)
(* The last sign-in that a process began, if it is neither expired nor     *)
(* presented, will be accepted: it is never the one that a purge drops, as *)
(* every earlier one is (oauth2.py:98-104).                                *)
(***************************************************************************)
NewestSignInHonoured ==
    \A s \in Servers : newest[s] # NoState /\ now < begun[newest[s]] => newest[s] \in DOMAIN pending[s]
=============================================================================
