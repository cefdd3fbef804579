------------------------------ MODULE Accounts ------------------------------
(***************************************************************************)
(* People, roles and sessions: services/api/src/auth.rs, the user handlers *)
(* of main.rs and their statements in store/sqlite.rs.                     *)
(*                                                                         *)
(* A request is authorised once, when it arrives, and then runs database   *)
(* statements with an await between any two: todo[w] is what worker w has  *)
(* still to run.  A statement that fails, a client that leaves and an API  *)
(* that stops all lose the rest of it.  Passwords are not modelled, only   *)
(* when they change; nor is the audit row each handler writes last, the    *)
(* throttle of wrong passwords, or email addresses (a user is one address).*)
(***************************************************************************)
EXTENDS Naturals

CONSTANTS
    Users,      \* email addresses somebody may have an account under
    Admin,      \* ADMIN_EMAIL
    Handlers,   \* requests the API may be serving at once
    Sessions,   \* session ids; a row of the table is one with an owner
    Roles,      \* the roles given out; owner, and whatever is less
    Asks,       \* the updates somebody may ask for (Updates)
    Boot,       \* the API's own start, before it serves
    None

VARIABLES
    serving,    \* "down", "seeding", "resetting" or "up"
    role, disabled, scoped,     \* the users table; role "none": no such row
    owner,      \* sessions table: whose session an id is, None for no row
    todo,       \* the statements each worker has still to run
    user,       \* the account they are about
    by,         \* who asked: the user of the session that authorised it
    granted,    \* the role it is to have
    wrote,      \* history: workers past the write their deletion belongs to
    old,        \* history: sessions older than a change of their account
    cut         \* history: accounts whose change lost its deletion

table   == <<role, disabled, scoped>>
request == <<todo, user, by, granted>>
history == <<old, cut>>
vars    == <<serving, table, owner, request, wrote, history>>

Workers == Handlers \cup {Boot}

\* The sessions are ended before the change that ends them.
DeletesFirst == [insert |-> 0, insertScoped |-> 0, role |-> 1, password |-> 2,
                 disable |-> 3, enable |-> 3, scope |-> 4, unscope |-> 4,
                 deleteSessions |-> 1, deleteAll |-> 1, open |-> 6]

\* Every handler's statements, in the order it runs those it has.
Rank == [insert |-> 0, insertScoped |-> 0, role |-> 1, password |-> 2,
         disable |-> 3, enable |-> 3, scope |-> 4, unscope |-> 4,
         deleteSessions |-> 5, deleteAll |-> 5, open |-> 6]

\* What an update may ask for: any field may be left out.
Updates == [role     : Roles \cup {None},
            password : BOOLEAN,
            disabled : BOOLEAN \cup {None},
            customer : BOOLEAN \cup {None}]

ASSUME AccountsAssumption ==
    /\ {"viewer", "owner"} \subseteq Roles
    /\ Roles \subseteq {"viewer", "technician", "owner"}
    /\ Asks \subseteq Updates
    /\ Admin \in Users
    /\ None \notin Users \cup Handlers
    /\ Boot \notin Handlers

Idle(w)    == todo[w] = {}
Runs(w, v) == v \in todo[w] /\ \A x \in todo[w] : Rank[v] <= Rank[x]
IsOwner(u) == role[u] = "owner" /\ ~disabled[u]

\* Worker w is to run these statements; with none left it is about nobody.
Has(w, statements, u, who, as) ==
    LET none == statements = {}
    IN  /\ todo' = [todo EXCEPT ![w] = statements]
        /\ user' = [user EXCEPT ![w] = IF none THEN None ELSE u]
        /\ by' = [by EXCEPT ![w] = IF none THEN None ELSE who]
        /\ granted' = [granted EXCEPT ![w] = IF none THEN None ELSE as]

Done(w, v) == Has(w, todo[w] \ {v}, user[w], by[w], granted[w])

Begin(w, u, who, as, statements) ==
    /\ Idle(w)
    /\ Has(w, statements, u, who, as)
    /\ UNCHANGED <<table, owner, wrote, history>>

\* session_user: the row, joined to an account that is not disabled.
Alive(s) == owner[s] # None /\ ~disabled[owner[s]]
-----------------------------------------------------------------------------
(* Requests, at the moment they are authorised.                            *)

\* auth_login: the account is read and the password verified, then minted.
Login(h, u) ==
    /\ serving = "up"
    /\ role[u] # "none" /\ ~disabled[u]
    /\ Begin(h, u, None, None, {"open"})
    /\ UNCHANGED serving

\* auth_change_password: whoever holds session s changes their own password.
ChangePassword(h, s) ==
    /\ serving = "up"
    /\ Alive(s)
    /\ Begin(h, owner[s], owner[s], None, {"password", "deleteSessions", "open"})
    /\ UNCHANGED serving

\* main.rs create_user: a login scoped to a customer is a viewer.
CreateUser(h, s, u, as, narrow) ==
    /\ serving = "up"
    /\ Alive(s) /\ role[owner[s]] = "owner"
    /\ narrow => as = "viewer"
    /\ Begin(h, u, owner[s], as, {IF narrow THEN "insertScoped" ELSE "insert"})
    /\ UNCHANGED serving

\* The role is written whether or not it was given.
WritesEveryRole(a) ==
    {"role"} \cup (IF a.password \/ a.disabled = TRUE THEN {"deleteSessions"} ELSE {})

\* Store::update_user has one statement per field that is there; a new
\* password and a disabled account end the sessions.
StatementsOf(a) ==
    {v \in {"role", "password", "disable", "enable", "scope", "unscope", "deleteSessions"} :
        \/ v = "role" /\ a.role # None
        \/ v = "password" /\ a.password
        \/ v = "disable" /\ a.disabled = TRUE
        \/ v = "enable" /\ a.disabled = FALSE
        \/ v = "scope" /\ a.customer = TRUE
        \/ v = "unscope" /\ a.customer = FALSE
        \/ v = "deleteSessions" /\ (a.password \/ a.disabled = TRUE)}

\* An owner may change themselves like anybody.
UpdateAnybody(h, s, u, a) ==
    /\ serving = "up"
    /\ Alive(s) /\ role[owner[s]] = "owner"
    /\ role[u] # "none"
    /\ Begin(h, u, owner[s], a.role, StatementsOf(a))
    /\ UNCHANGED serving

\* main.rs update_user behind require_owner: nobody disables or re-ranks
\* themselves.
UpdateUser(h, s, u, a) ==
    /\ serving = "up"
    /\ Alive(s) /\ role[owner[s]] = "owner"
    /\ role[u] # "none"
    /\ u = owner[s] => a.disabled # TRUE /\ a.role = None
    /\ Begin(h, u, owner[s], a.role, StatementsOf(a))
    /\ UNCHANGED serving

\* auth_logout, and a session reaching its expires_at.
SessionEnds(s) ==
    /\ serving = "up"
    /\ owner[s] # None
    /\ owner' = [owner EXCEPT ![s] = None]
    /\ old' = old \ {s}
    /\ UNCHANGED <<serving, table, request, wrote, cut>>
-----------------------------------------------------------------------------
(* Statements.                                                             *)

\* Every session there is of an account that changes is older than that.
Changed(w) ==
    /\ old' = old \cup {s \in Sessions : owner[s] = user[w]}
    /\ wrote' = wrote \cup {w}
    /\ UNCHANGED cut

WriteRole(w) ==
    /\ Runs(w, "role")
    /\ role' = [role EXCEPT ![user[w]] = granted[w]]
    /\ Done(w, "role")
    /\ UNCHANGED <<serving, disabled, scoped, owner, wrote, history>>

WritePassword(w) ==
    /\ Runs(w, "password")
    /\ Changed(w)
    /\ Done(w, "password")
    /\ UNCHANGED <<serving, table, owner>>

Disable(w) ==
    /\ Runs(w, "disable")
    /\ disabled' = [disabled EXCEPT ![user[w]] = TRUE]
    /\ Changed(w)
    /\ Done(w, "disable")
    /\ UNCHANGED <<serving, role, scoped, owner>>

Enable(w) ==
    /\ Runs(w, "enable")
    /\ disabled' = [disabled EXCEPT ![user[w]] = FALSE]
    /\ Done(w, "enable")
    /\ UNCHANGED <<serving, role, scoped, owner, wrote, history>>

WriteScope(w) ==
    /\ \E v \in {"scope", "unscope"} :
          /\ Runs(w, v)
          /\ scoped' = [scoped EXCEPT ![user[w]] = (v = "scope")]
          /\ Done(w, v)
    /\ UNCHANGED <<serving, role, disabled, owner, wrote, history>>

\* INSERT ... ON CONFLICT(email) DO NOTHING: an account that is there stays.
InsertUser(w) ==
    /\ \E v \in {"insert", "insertScoped"} :
          /\ Runs(w, v)
          /\ IF role[user[w]] = "none"
             THEN /\ role' = [role EXCEPT ![user[w]] = granted[w]]
                  /\ scoped' = [scoped EXCEPT ![user[w]] = (v = "insertScoped")]
             ELSE UNCHANGED <<role, scoped>>
          /\ Done(w, v)
    /\ UNCHANGED <<serving, disabled, owner, wrote, history>>

\* delete_sessions_of, and delete_all_sessions of a forced reset.
DeleteSessions(w) ==
    /\ \E v \in {"deleteSessions", "deleteAll"} :
          LET ended == IF v = "deleteAll" THEN Users ELSE {user[w]}
          IN  /\ Runs(w, v)
              /\ owner' = [s \in Sessions |-> IF owner[s] \in ended THEN None ELSE owner[s]]
              /\ old' = {s \in old : owner[s] \notin ended}
              /\ cut' = cut \ ended
              /\ Done(w, v)
    /\ wrote' = wrote \ {w}
    /\ UNCHANGED <<serving, table>>

\* create_session under an id nobody has.
OpenSession(w, s) ==
    /\ Runs(w, "open")
    /\ owner[s] = None
    /\ owner' = [owner EXCEPT ![s] = user[w]]
    /\ Done(w, "open")
    /\ UNCHANGED <<serving, table, wrote, history>>

\* A statement fails or the client leaves: the handler ends there.  (That
\* update_user ignores a failed deletion comes to the same.)
Abandon(h) ==
    /\ ~Idle(h)
    /\ Has(h, {}, None, None, None)
    /\ wrote' = wrote \ {h}
    /\ cut' = IF h \in wrote THEN cut \cup {user[h]} ELSE cut
    /\ UNCHANGED <<serving, table, owner, old>>
-----------------------------------------------------------------------------
(* seed_credentials: what happens before the API serves.                   *)

Fresh == \A u \in Users : role[u] = "none"

\* Nobody's password changes on a restart; a fresh install gets an owner.
Start ==
    /\ serving = "down"
    /\ IF Fresh
       THEN serving' = "seeding" /\ Begin(Boot, Admin, None, "owner", {"insert"})
       ELSE serving' = "up" /\ UNCHANGED <<table, owner, request, wrote, history>>

\* The reset ends the sessions of its own account only.
ResetOneAccount ==
    /\ serving = "down"
    /\ serving' = "resetting"
    /\ Begin(Boot, Admin, None, "owner",
             IF role[Admin] # "none"
             THEN {"password", "enable", "deleteSessions"}
             ELSE {"insert", "deleteSessions"})

\* ADMIN_PASSWORD_RESET=true.
StartWithReset ==
    /\ serving = "down"
    /\ serving' = "resetting"
    /\ Begin(Boot, Admin, None, "owner",
             IF role[Admin] # "none"
             THEN {"password", "enable", "deleteAll"}
             ELSE {"insert", "deleteAll"})

Serve ==
    /\ serving \in {"seeding", "resetting"}
    /\ Idle(Boot)
    /\ serving' = "up"
    /\ UNCHANGED <<table, owner, request, wrote, history>>

\* The API stops at any point; every request ends with it.
Stop ==
    /\ serving # "down"
    /\ serving' = "down"
    /\ todo' = [w \in Workers |-> {}]
    /\ user' = [w \in Workers |-> None]
    /\ by' = [w \in Workers |-> None]
    /\ granted' = [w \in Workers |-> None]
    /\ wrote' = {}
    /\ cut' = cut \cup {user[w] : w \in wrote}
    /\ UNCHANGED <<table, owner, old>>
-----------------------------------------------------------------------------

Init ==
    /\ serving = "down"
    /\ role = [u \in Users |-> "none"]
    /\ disabled = [u \in Users |-> FALSE]
    /\ scoped = [u \in Users |-> FALSE]
    /\ owner = [s \in Sessions |-> None]
    /\ todo = [w \in Workers |-> {}]
    /\ granted = [w \in Workers |-> None]
    /\ user = [w \in Workers |-> None]
    /\ by = [w \in Workers |-> None]
    /\ wrote = {} /\ old = {} /\ cut = {}

Ask(h) ==
    \/ \E u \in Users : Login(h, u)
    \/ \E s \in Sessions : ChangePassword(h, s)
    \/ \E s \in Sessions, u \in Users, as \in Roles, narrow \in BOOLEAN :
          CreateUser(h, s, u, as, narrow)
    \/ \E s \in Sessions, u \in Users, a \in Asks : UpdateUser(h, s, u, a)

Run(w) ==
    \/ WriteRole(w) \/ WritePassword(w) \/ Disable(w) \/ Enable(w)
    \/ WriteScope(w) \/ InsertUser(w) \/ DeleteSessions(w)
    \/ \E s \in Sessions : OpenSession(w, s)

Next ==
    \/ \E h \in Handlers : Ask(h) \/ Abandon(h)
    \/ \E w \in Workers : Run(w)
    \/ \E s \in Sessions : SessionEnds(s)
    \/ Start \/ StartWithReset \/ Serve \/ Stop

Spec == Init /\ [][Next]_vars
-----------------------------------------------------------------------------
(* Properties.                                                             *)

TypeOK ==
    /\ serving \in {"down", "seeding", "resetting", "up"}
    /\ role \in [Users -> Roles \cup {"none"}]
    /\ disabled \in [Users -> BOOLEAN]
    /\ scoped \in [Users -> BOOLEAN]
    /\ owner \in [Sessions -> Users \cup {None}]
    /\ todo \in [Workers -> SUBSET DOMAIN Rank]
    /\ user \in [Workers -> Users \cup {None}]
    /\ by \in [Workers -> Users \cup {None}]
    /\ granted \in [Workers -> Roles \cup {None}]
    /\ wrote \subseteq Workers
    /\ old \subseteq Sessions
    /\ cut \subseteq Users

\* docs/USERS.md, "What an owner can do to people": turning an account off and
\* changing its password end its live sessions.  A session that was there when
\* the change was written is gone by the end of it: it is left only while the
\* deletion is still to come, or where the change lost it.
SessionsEnd ==
    \A s \in old : \/ \E w \in wrote : user[w] = owner[s]
                   \/ owner[s] \in cut

\* update_user refuses an owner who would lock themselves out.  So the last
\* owner goes only in a step of somebody who was an owner when the request
\* arrived and no longer is one when its statement runs.
SomebodyOwnsTheSystem ==
    [][ (\E u \in Users : IsOwner(u)) /\ ~(\E u \in Users : IsOwner(u)')
        => \E h \in Handlers : todo'[h] # todo[h] /\ ~IsOwner(by[h]) ]_vars

\* ADMIN_PASSWORD_RESET=true: whatever was cut short before, the API serves
\* after a reset with no session from before it and the account it is for open.
ResetTakesEffect ==
    [][ serving = "resetting" /\ serving' = "up"
        => /\ \A s \in Sessions : owner[s] = None
           /\ role[Admin] # "none" /\ ~disabled[Admin]
           /\ cut = {} ]_vars
=============================================================================
