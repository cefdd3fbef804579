--------------------------- MODULE Accounts_proofs ---------------------------
(***************************************************************************)
(* Theorems about Accounts, for any number of people, sessions and         *)
(* requests at once.  AccountsInv adds to the types what a request in      *)
(* flight still has to run: a change of password and a disabled account    *)
(* keep their deletion ahead of them, and a change of rank is never its    *)
(* author's own.  ResetInv adds what a forced reset has still to put       *)
(* right, and that nothing else runs meanwhile.                            *)
(***************************************************************************)
EXTENDS Accounts, TLAPS

USE AccountsAssumption

Verbs == {"insert", "insertScoped", "role", "password", "disable", "enable",
          "scope", "unscope", "deleteSessions", "deleteAll", "open"}

Ends(w) == todo[w] \cap {"deleteSessions", "deleteAll"} # {}

\* What a worker with something left to run is about.
Subjects ==
    \A w \in Workers :
        /\ todo[w] # {} => user[w] \in Users
        /\ todo[w] \cap {"insert", "insertScoped", "role"} # {} => granted[w] \in Roles

\* A request that can cost somebody their rank is not its author's own.
Authors ==
    \A w \in Workers :
        todo[w] \cap {"role", "disable"} # {}
        => w # Boot /\ by[w] \in Users /\ by[w] # user[w]

\* A change of password and a disabled account have their deletion to come.
Deletions ==
    \A w \in Workers :
        todo[w] \cap {"password", "disable"} # {} \/ w \in wrote => Ends(w)

OldAreSessions == \A s \in old : owner[s] \in Users

AccountsInv ==
    TypeOK /\ Subjects /\ Authors /\ Deletions /\ OldAreSessions /\ SessionsEnd
-----------------------------------------------------------------------------

\* The order of the statements, as numbers.
LEMMA Ranks ==
    /\ DOMAIN Rank = Verbs
    /\ Rank["insert"] = 0 /\ Rank["insertScoped"] = 0 /\ Rank["role"] = 1
    /\ Rank["password"] = 2 /\ Rank["disable"] = 3 /\ Rank["enable"] = 3
    /\ Rank["scope"] = 4 /\ Rank["unscope"] = 4 /\ Rank["deleteSessions"] = 5
    /\ Rank["deleteAll"] = 5 /\ Rank["open"] = 6
  BY DEF Rank, Verbs

\* By the time it deletes sessions a worker has made every change.
LEMMA DeletesLast ==
    ASSUME NEW w, Runs(w, "deleteSessions") \/ Runs(w, "deleteAll")
    PROVE  "role" \notin todo[w] /\ "password" \notin todo[w] /\ "disable" \notin todo[w]
  BY Ranks DEF Runs

\* The statements of an update, and what each is there for.
LEMMA UpdateStatements ==
    ASSUME NEW a \in Asks
    PROVE  /\ StatementsOf(a) \subseteq Verbs
           /\ "insert" \notin StatementsOf(a) /\ "insertScoped" \notin StatementsOf(a)
           /\ "role" \in StatementsOf(a) => a.role \in Roles
           /\ a.role \in Roles \cup {None}
           /\ "disable" \in StatementsOf(a) => a.disabled = TRUE
           /\ StatementsOf(a) \cap {"password", "disable"} # {}
              => "deleteSessions" \in StatementsOf(a)
  <1>1. a \in Updates
    OBVIOUS
  <1>2. a.role \in Roles \cup {None}
    BY <1>1 DEF Updates
  <1>3. QED
    BY <1>2 DEF StatementsOf, Verbs

LEMMA AccountsStart == Init => AccountsInv
  BY DEF Init, AccountsInv, TypeOK, Subjects, Authors, Deletions, OldAreSessions,
         SessionsEnd, Ends, Workers

\* Every step keeps the types.
LEMMA TypeOKStep == AccountsInv /\ [Next]_vars => TypeOK'
<1> SUFFICES ASSUME AccountsInv, [Next]_vars PROVE TypeOK'
  OBVIOUS
<1> USE DEF AccountsInv, Has, Done, Begin, Idle, Changed, table, history, request, Workers
<1>1. ASSUME NEW h \in Handlers, NEW u \in Users, Login(h, u) PROVE TypeOK'
  BY <1>1, Ranks DEF Login, TypeOK, Alive, Verbs, Runs
<1>2. ASSUME NEW h \in Handlers, NEW s \in Sessions, ChangePassword(h, s) PROVE TypeOK'
  BY <1>2, Ranks DEF ChangePassword, TypeOK, Alive, Verbs, Runs
<1>3. ASSUME NEW h \in Handlers, NEW s \in Sessions, NEW u \in Users, NEW as \in Roles, NEW narrow \in BOOLEAN, CreateUser(h, s, u, as, narrow) PROVE TypeOK'
  BY <1>3, Ranks DEF CreateUser, TypeOK, Alive, Verbs, Runs
<1>4. ASSUME NEW h \in Handlers, NEW s \in Sessions, NEW u \in Users, NEW a \in Asks, UpdateUser(h, s, u, a) PROVE TypeOK'
  BY <1>4, UpdateStatements, Ranks DEF UpdateUser, TypeOK, Alive, Verbs, Runs
<1>5. ASSUME NEW h \in Handlers, Abandon(h) PROVE TypeOK'
  BY <1>5, Ranks DEF Abandon, TypeOK, Verbs, Runs, Subjects, Deletions, Ends
<1>6. ASSUME NEW w \in Workers, WriteRole(w) PROVE TypeOK'
  BY <1>6, Ranks DEF WriteRole, TypeOK, Verbs, Runs, Subjects, Deletions, Ends
<1>7. ASSUME NEW w \in Workers, WritePassword(w) PROVE TypeOK'
  BY <1>7, Ranks DEF WritePassword, TypeOK, Verbs, Runs, Subjects, Deletions, Ends
<1>8. ASSUME NEW w \in Workers, Disable(w) PROVE TypeOK'
  BY <1>8, Ranks DEF Disable, TypeOK, Verbs, Runs, Subjects, Deletions, Ends
<1>9. ASSUME NEW w \in Workers, Enable(w) PROVE TypeOK'
  BY <1>9, Ranks DEF Enable, TypeOK, Verbs, Runs
<1>10. ASSUME NEW w \in Workers, WriteScope(w) PROVE TypeOK'
  <2>1. PICK v \in {"scope", "unscope"} :
           Runs(w, v) /\ scoped' = [scoped EXCEPT ![user[w]] = (v = "scope")] /\ Done(w, v)
    BY <1>10 DEF WriteScope
  <2>2. scoped' \in [Users -> BOOLEAN]
    BY <2>1 DEF TypeOK
  <2>3. /\ todo' \in [Workers -> SUBSET Verbs]
        /\ user' \in [Workers -> Users \cup {None}]
        /\ by' \in [Workers -> Users \cup {None}]
        /\ granted' \in [Workers -> Roles \cup {None}]
    BY <2>1, Ranks DEF TypeOK
  <2>4. QED BY <1>10, <2>2, <2>3, Ranks DEF WriteScope, TypeOK
<1>11. ASSUME NEW w \in Workers, InsertUser(w) PROVE TypeOK'
  <2>1. PICK v \in {"insert", "insertScoped"} :
           /\ Runs(w, v)
           /\ \/ /\ role' = [role EXCEPT ![user[w]] = granted[w]]
                 /\ scoped' = [scoped EXCEPT ![user[w]] = (v = "insertScoped")]
              \/ UNCHANGED <<role, scoped>>
           /\ Done(w, v)
    BY <1>11 DEF InsertUser
  <2>2. granted[w] \in Roles
    BY <2>1 DEF Runs, Subjects
  <2>3. scoped' \in [Users -> BOOLEAN]
    BY <2>1 DEF TypeOK
  <2>4. role' \in [Users -> Roles \cup {"none"}]
    BY <2>1, <2>2 DEF TypeOK
  <2>5. /\ todo' \in [Workers -> SUBSET Verbs]
        /\ user' \in [Workers -> Users \cup {None}]
        /\ by' \in [Workers -> Users \cup {None}]
        /\ granted' \in [Workers -> Roles \cup {None}]
    BY <2>1, Ranks DEF TypeOK
  <2>6. QED BY <1>11, <2>3, <2>4, <2>5, Ranks DEF InsertUser, TypeOK
<1>12. ASSUME NEW w \in Workers, DeleteSessions(w) PROVE TypeOK'
  BY <1>12, Ranks DEF DeleteSessions, TypeOK, Verbs, Runs, Subjects, Deletions, Ends
<1>13. ASSUME NEW w \in Workers, NEW s \in Sessions, OpenSession(w, s) PROVE TypeOK'
  BY <1>13, Ranks DEF OpenSession, TypeOK, Verbs, Runs, Subjects, Deletions, Ends
<1>14. ASSUME NEW s \in Sessions, SessionEnds(s) PROVE TypeOK'
  BY <1>14, Ranks DEF SessionEnds, TypeOK, Verbs, Runs
<1>15. ASSUME Start PROVE TypeOK'
  BY <1>15, Ranks DEF Start, TypeOK, Verbs, Runs
<1>16. ASSUME StartWithReset PROVE TypeOK'
  BY <1>16, Ranks DEF StartWithReset, TypeOK, Verbs, Runs
<1>17. ASSUME Serve PROVE TypeOK'
  BY <1>17, Ranks DEF Serve, TypeOK, Verbs, Runs
<1>18. ASSUME Stop PROVE TypeOK'
  BY <1>18, Ranks DEF Stop, TypeOK, Verbs, Runs, Subjects, Deletions, Ends
<1>19. CASE UNCHANGED vars
  BY <1>19 DEF vars, TypeOK
<1>20. QED
  BY <1>1, <1>2, <1>3, <1>4, <1>5, <1>6, <1>7, <1>8, <1>9, <1>10, <1>11, <1>12, <1>13, <1>14, <1>15, <1>16, <1>17, <1>18, <1>19 DEF Next, Ask, Run

\* Every step keeps what a request is about.
LEMMA SubjectsStep == AccountsInv /\ [Next]_vars => Subjects'
<1> SUFFICES ASSUME AccountsInv, [Next]_vars PROVE Subjects'
  OBVIOUS
<1> USE DEF AccountsInv, Has, Done, Begin, Idle, Changed, table, history, request, Workers
<1>1. ASSUME NEW h \in Handlers, NEW u \in Users, Login(h, u) PROVE Subjects'
  BY <1>1 DEF Login, TypeOK, Subjects, Alive
<1>2. ASSUME NEW h \in Handlers, NEW s \in Sessions, ChangePassword(h, s) PROVE Subjects'
  BY <1>2 DEF ChangePassword, TypeOK, Subjects, Alive
<1>3. ASSUME NEW h \in Handlers, NEW s \in Sessions, NEW u \in Users, NEW as \in Roles, NEW narrow \in BOOLEAN, CreateUser(h, s, u, as, narrow) PROVE Subjects'
  BY <1>3 DEF CreateUser, TypeOK, Subjects, Alive
<1>4. ASSUME NEW h \in Handlers, NEW s \in Sessions, NEW u \in Users, NEW a \in Asks, UpdateUser(h, s, u, a) PROVE Subjects'
  <2>1. todo[h] = {} /\ todo' = [todo EXCEPT ![h] = StatementsOf(a)]
    BY <1>4 DEF UpdateUser
  <2>2. StatementsOf(a) # {} => user'[h] = u /\ by'[h] = owner[s] /\ granted'[h] = a.role
    BY <1>4 DEF UpdateUser, TypeOK
  <2>3. \A w \in Workers \ {h} :
           todo'[w] = todo[w] /\ user'[w] = user[w] /\ by'[w] = by[w] /\ granted'[w] = granted[w]
    BY <1>4 DEF UpdateUser, TypeOK
  <2>4. todo'[h] # {} => user'[h] \in Users
    BY <2>1, <2>2 DEF TypeOK
  <2>5. todo'[h] \cap {"insert", "insertScoped", "role"} # {} => granted'[h] \in Roles
    <3>1. todo'[h] = StatementsOf(a)
      BY <2>1 DEF TypeOK
    <3>2. StatementsOf(a) \cap {"insert", "insertScoped", "role"} # {}
          => StatementsOf(a) # {} /\ a.role \in Roles
      BY UpdateStatements
    <3>3. QED BY <2>2, <3>1, <3>2
  <2>6. QED BY <2>3, <2>4, <2>5 DEF Subjects
<1>5. ASSUME NEW h \in Handlers, Abandon(h) PROVE Subjects'
  BY <1>5 DEF Abandon, TypeOK, Subjects
<1>6. ASSUME NEW w \in Workers, WriteRole(w) PROVE Subjects'
  BY <1>6 DEF WriteRole, TypeOK, Subjects, Runs
<1>7. ASSUME NEW w \in Workers, WritePassword(w) PROVE Subjects'
  BY <1>7 DEF WritePassword, TypeOK, Subjects, Runs
<1>8. ASSUME NEW w \in Workers, Disable(w) PROVE Subjects'
  BY <1>8 DEF Disable, TypeOK, Subjects, Runs
<1>9. ASSUME NEW w \in Workers, Enable(w) PROVE Subjects'
  BY <1>9 DEF Enable, TypeOK, Subjects, Runs
<1>10. ASSUME NEW w \in Workers, WriteScope(w) PROVE Subjects'
  BY <1>10 DEF WriteScope, TypeOK, Subjects, Runs
<1>11. ASSUME NEW w \in Workers, InsertUser(w) PROVE Subjects'
  BY <1>11 DEF InsertUser, TypeOK, Subjects, Runs
<1>12. ASSUME NEW w \in Workers, DeleteSessions(w) PROVE Subjects'
  BY <1>12 DEF DeleteSessions, TypeOK, Subjects, Runs
<1>13. ASSUME NEW w \in Workers, NEW s \in Sessions, OpenSession(w, s) PROVE Subjects'
  BY <1>13 DEF OpenSession, TypeOK, Subjects, Runs
<1>14. ASSUME NEW s \in Sessions, SessionEnds(s) PROVE Subjects'
  BY <1>14 DEF SessionEnds, TypeOK, Subjects
<1>15. ASSUME Start PROVE Subjects'
  BY <1>15 DEF Start, TypeOK, Subjects
<1>16. ASSUME StartWithReset PROVE Subjects'
  BY <1>16 DEF StartWithReset, TypeOK, Subjects
<1>17. ASSUME Serve PROVE Subjects'
  BY <1>17 DEF Serve, TypeOK, Subjects
<1>18. ASSUME Stop PROVE Subjects'
  BY <1>18 DEF Stop, TypeOK, Subjects
<1>19. CASE UNCHANGED vars
  BY <1>19 DEF vars, TypeOK, Subjects
<1>20. QED
  BY <1>1, <1>2, <1>3, <1>4, <1>5, <1>6, <1>7, <1>8, <1>9, <1>10, <1>11, <1>12, <1>13, <1>14, <1>15, <1>16, <1>17, <1>18, <1>19 DEF Next, Ask, Run

\* Every step keeps changes of rank away from their authors.
LEMMA AuthorsStep == AccountsInv /\ [Next]_vars => Authors'
<1> SUFFICES ASSUME AccountsInv, [Next]_vars PROVE Authors'
  OBVIOUS
<1> USE DEF AccountsInv, Has, Done, Begin, Idle, Changed, table, history, request, Workers
<1>1. ASSUME NEW h \in Handlers, NEW u \in Users, Login(h, u) PROVE Authors'
  BY <1>1 DEF Login, TypeOK, Authors, Alive
<1>2. ASSUME NEW h \in Handlers, NEW s \in Sessions, ChangePassword(h, s) PROVE Authors'
  BY <1>2 DEF ChangePassword, TypeOK, Authors, Alive
<1>3. ASSUME NEW h \in Handlers, NEW s \in Sessions, NEW u \in Users, NEW as \in Roles, NEW narrow \in BOOLEAN, CreateUser(h, s, u, as, narrow) PROVE Authors'
  BY <1>3 DEF CreateUser, TypeOK, Authors, Alive
<1>4. ASSUME NEW h \in Handlers, NEW s \in Sessions, NEW u \in Users, NEW a \in Asks, UpdateUser(h, s, u, a) PROVE Authors'
  <2>1. todo[h] = {} /\ todo' = [todo EXCEPT ![h] = StatementsOf(a)]
    BY <1>4 DEF UpdateUser
  <2>2. StatementsOf(a) # {} => user'[h] = u /\ by'[h] = owner[s] /\ granted'[h] = a.role
    BY <1>4 DEF UpdateUser, TypeOK
  <2>3. \A w \in Workers \ {h} :
           todo'[w] = todo[w] /\ user'[w] = user[w] /\ by'[w] = by[w] /\ granted'[w] = granted[w]
    BY <1>4 DEF UpdateUser, TypeOK
  <2>4. owner[s] \in Users
    BY <1>4 DEF UpdateUser, Alive, TypeOK
  <2>5. StatementsOf(a) \cap {"role", "disable"} # {} => u # owner[s]
    BY <1>4, UpdateStatements DEF UpdateUser, StatementsOf
  <2>6. todo'[h] \cap {"role", "disable"} # {}
        => h # Boot /\ by'[h] \in Users /\ by'[h] # user'[h]
    BY <2>1, <2>2, <2>4, <2>5 DEF TypeOK
  <2>7. QED BY <2>3, <2>6 DEF Authors
<1>5. ASSUME NEW h \in Handlers, Abandon(h) PROVE Authors'
  BY <1>5 DEF Abandon, TypeOK, Authors
<1>6. ASSUME NEW w \in Workers, WriteRole(w) PROVE Authors'
  BY <1>6 DEF WriteRole, TypeOK, Authors, Runs
<1>7. ASSUME NEW w \in Workers, WritePassword(w) PROVE Authors'
  BY <1>7 DEF WritePassword, TypeOK, Authors, Runs
<1>8. ASSUME NEW w \in Workers, Disable(w) PROVE Authors'
  BY <1>8 DEF Disable, TypeOK, Authors, Runs
<1>9. ASSUME NEW w \in Workers, Enable(w) PROVE Authors'
  BY <1>9 DEF Enable, TypeOK, Authors, Runs
<1>10. ASSUME NEW w \in Workers, WriteScope(w) PROVE Authors'
  BY <1>10 DEF WriteScope, TypeOK, Authors, Runs
<1>11. ASSUME NEW w \in Workers, InsertUser(w) PROVE Authors'
  BY <1>11 DEF InsertUser, TypeOK, Authors, Runs
<1>12. ASSUME NEW w \in Workers, DeleteSessions(w) PROVE Authors'
  BY <1>12, DeletesLast DEF DeleteSessions, TypeOK, Authors, Runs
<1>13. ASSUME NEW w \in Workers, NEW s \in Sessions, OpenSession(w, s) PROVE Authors'
  BY <1>13 DEF OpenSession, TypeOK, Authors, Runs
<1>14. ASSUME NEW s \in Sessions, SessionEnds(s) PROVE Authors'
  BY <1>14 DEF SessionEnds, TypeOK, Authors
<1>15. ASSUME Start PROVE Authors'
  BY <1>15 DEF Start, TypeOK, Authors
<1>16. ASSUME StartWithReset PROVE Authors'
  BY <1>16 DEF StartWithReset, TypeOK, Authors
<1>17. ASSUME Serve PROVE Authors'
  BY <1>17 DEF Serve, TypeOK, Authors
<1>18. ASSUME Stop PROVE Authors'
  BY <1>18 DEF Stop, TypeOK, Authors
<1>19. CASE UNCHANGED vars
  BY <1>19 DEF vars, TypeOK, Authors
<1>20. QED
  BY <1>1, <1>2, <1>3, <1>4, <1>5, <1>6, <1>7, <1>8, <1>9, <1>10, <1>11, <1>12, <1>13, <1>14, <1>15, <1>16, <1>17, <1>18, <1>19 DEF Next, Ask, Run

\* Every step keeps the deletion ahead of what has been changed.
LEMMA DeletionsStep == AccountsInv /\ [Next]_vars => Deletions'
<1> SUFFICES ASSUME AccountsInv, [Next]_vars PROVE Deletions'
  OBVIOUS
<1> USE DEF AccountsInv, Has, Done, Begin, Idle, Changed, table, history, request, Workers
<1>1. ASSUME NEW h \in Handlers, NEW u \in Users, Login(h, u) PROVE Deletions'
  BY <1>1 DEF Login, TypeOK, Deletions, Ends, Alive
<1>2. ASSUME NEW h \in Handlers, NEW s \in Sessions, ChangePassword(h, s) PROVE Deletions'
  BY <1>2 DEF ChangePassword, TypeOK, Deletions, Ends, Alive
<1>3. ASSUME NEW h \in Handlers, NEW s \in Sessions, NEW u \in Users, NEW as \in Roles, NEW narrow \in BOOLEAN, CreateUser(h, s, u, as, narrow) PROVE Deletions'
  BY <1>3 DEF CreateUser, TypeOK, Deletions, Ends, Alive
<1>4. ASSUME NEW h \in Handlers, NEW s \in Sessions, NEW u \in Users, NEW a \in Asks, UpdateUser(h, s, u, a) PROVE Deletions'
  BY <1>4, UpdateStatements DEF UpdateUser, TypeOK, Deletions, Ends, Alive
<1>5. ASSUME NEW h \in Handlers, Abandon(h) PROVE Deletions'
  BY <1>5 DEF Abandon, TypeOK, Deletions, Ends
<1>6. ASSUME NEW w \in Workers, WriteRole(w) PROVE Deletions'
  BY <1>6 DEF WriteRole, TypeOK, Deletions, Ends, Runs
<1>7. ASSUME NEW w \in Workers, WritePassword(w) PROVE Deletions'
  BY <1>7 DEF WritePassword, TypeOK, Deletions, Ends, Runs
<1>8. ASSUME NEW w \in Workers, Disable(w) PROVE Deletions'
  BY <1>8 DEF Disable, TypeOK, Deletions, Ends, Runs
<1>9. ASSUME NEW w \in Workers, Enable(w) PROVE Deletions'
  BY <1>9 DEF Enable, TypeOK, Deletions, Ends, Runs
<1>10. ASSUME NEW w \in Workers, WriteScope(w) PROVE Deletions'
  BY <1>10 DEF WriteScope, TypeOK, Deletions, Ends, Runs
<1>11. ASSUME NEW w \in Workers, InsertUser(w) PROVE Deletions'
  BY <1>11 DEF InsertUser, TypeOK, Deletions, Ends, Runs
<1>12. ASSUME NEW w \in Workers, DeleteSessions(w) PROVE Deletions'
  BY <1>12, DeletesLast DEF DeleteSessions, TypeOK, Deletions, Ends, Runs
<1>13. ASSUME NEW w \in Workers, NEW s \in Sessions, OpenSession(w, s) PROVE Deletions'
  BY <1>13 DEF OpenSession, TypeOK, Deletions, Ends, Runs
<1>14. ASSUME NEW s \in Sessions, SessionEnds(s) PROVE Deletions'
  BY <1>14 DEF SessionEnds, TypeOK, Deletions, Ends
<1>15. ASSUME Start PROVE Deletions'
  BY <1>15 DEF Start, TypeOK, Deletions, Ends
<1>16. ASSUME StartWithReset PROVE Deletions'
  BY <1>16 DEF StartWithReset, TypeOK, Deletions, Ends
<1>17. ASSUME Serve PROVE Deletions'
  BY <1>17 DEF Serve, TypeOK, Deletions, Ends
<1>18. ASSUME Stop PROVE Deletions'
  BY <1>18 DEF Stop, TypeOK, Deletions, Ends
<1>19. CASE UNCHANGED vars
  BY <1>19 DEF vars, TypeOK, Deletions, Ends
<1>20. QED
  BY <1>1, <1>2, <1>3, <1>4, <1>5, <1>6, <1>7, <1>8, <1>9, <1>10, <1>11, <1>12, <1>13, <1>14, <1>15, <1>16, <1>17, <1>18, <1>19 DEF Next, Ask, Run

\* Every step keeps the old sessions among the sessions there are.
LEMMA OldAreSessionsStep == AccountsInv /\ [Next]_vars => OldAreSessions'
<1> SUFFICES ASSUME AccountsInv, [Next]_vars PROVE OldAreSessions'
  OBVIOUS
<1> USE DEF AccountsInv, Has, Done, Begin, Idle, Changed, table, history, request, Workers
<1>1. ASSUME NEW h \in Handlers, NEW u \in Users, Login(h, u) PROVE OldAreSessions'
  BY <1>1 DEF Login, TypeOK, OldAreSessions, Subjects, Alive
<1>2. ASSUME NEW h \in Handlers, NEW s \in Sessions, ChangePassword(h, s) PROVE OldAreSessions'
  BY <1>2 DEF ChangePassword, TypeOK, OldAreSessions, Subjects, Alive
<1>3. ASSUME NEW h \in Handlers, NEW s \in Sessions, NEW u \in Users, NEW as \in Roles, NEW narrow \in BOOLEAN, CreateUser(h, s, u, as, narrow) PROVE OldAreSessions'
  BY <1>3 DEF CreateUser, TypeOK, OldAreSessions, Subjects, Alive
<1>4. ASSUME NEW h \in Handlers, NEW s \in Sessions, NEW u \in Users, NEW a \in Asks, UpdateUser(h, s, u, a) PROVE OldAreSessions'
  BY <1>4, UpdateStatements DEF UpdateUser, TypeOK, OldAreSessions, Subjects, Alive
<1>5. ASSUME NEW h \in Handlers, Abandon(h) PROVE OldAreSessions'
  BY <1>5 DEF Abandon, TypeOK, OldAreSessions, Subjects
<1>6. ASSUME NEW w \in Workers, WriteRole(w) PROVE OldAreSessions'
  BY <1>6 DEF WriteRole, TypeOK, OldAreSessions, Subjects, Runs
<1>7. ASSUME NEW w \in Workers, WritePassword(w) PROVE OldAreSessions'
  BY <1>7 DEF WritePassword, TypeOK, OldAreSessions, Subjects, Runs
<1>8. ASSUME NEW w \in Workers, Disable(w) PROVE OldAreSessions'
  BY <1>8 DEF Disable, TypeOK, OldAreSessions, Subjects, Runs
<1>9. ASSUME NEW w \in Workers, Enable(w) PROVE OldAreSessions'
  BY <1>9 DEF Enable, TypeOK, OldAreSessions, Subjects, Runs
<1>10. ASSUME NEW w \in Workers, WriteScope(w) PROVE OldAreSessions'
  BY <1>10 DEF WriteScope, TypeOK, OldAreSessions, Subjects, Runs
<1>11. ASSUME NEW w \in Workers, InsertUser(w) PROVE OldAreSessions'
  BY <1>11 DEF InsertUser, TypeOK, OldAreSessions, Subjects, Runs
<1>12. ASSUME NEW w \in Workers, DeleteSessions(w) PROVE OldAreSessions'
  BY <1>12 DEF DeleteSessions, TypeOK, OldAreSessions, Subjects, Runs
<1>13. ASSUME NEW w \in Workers, NEW s \in Sessions, OpenSession(w, s) PROVE OldAreSessions'
  BY <1>13 DEF OpenSession, TypeOK, OldAreSessions, Subjects, Runs
<1>14. ASSUME NEW s \in Sessions, SessionEnds(s) PROVE OldAreSessions'
  BY <1>14 DEF SessionEnds, TypeOK, OldAreSessions, Subjects
<1>15. ASSUME Start PROVE OldAreSessions'
  BY <1>15 DEF Start, TypeOK, OldAreSessions, Subjects
<1>16. ASSUME StartWithReset PROVE OldAreSessions'
  BY <1>16 DEF StartWithReset, TypeOK, OldAreSessions, Subjects
<1>17. ASSUME Serve PROVE OldAreSessions'
  BY <1>17 DEF Serve, TypeOK, OldAreSessions, Subjects
<1>18. ASSUME Stop PROVE OldAreSessions'
  BY <1>18 DEF Stop, TypeOK, OldAreSessions, Subjects
<1>19. CASE UNCHANGED vars
  BY <1>19 DEF vars, TypeOK, OldAreSessions, Subjects
<1>20. QED
  BY <1>1, <1>2, <1>3, <1>4, <1>5, <1>6, <1>7, <1>8, <1>9, <1>10, <1>11, <1>12, <1>13, <1>14, <1>15, <1>16, <1>17, <1>18, <1>19 DEF Next, Ask, Run

\* Every step keeps what is promised of an old session.
LEMMA SessionsEndStep == AccountsInv /\ [Next]_vars => SessionsEnd'
<1> SUFFICES ASSUME AccountsInv, [Next]_vars PROVE SessionsEnd'
  OBVIOUS
<1> USE DEF AccountsInv, Has, Done, Begin, Idle, Changed, table, history, request, Workers
<1>1. ASSUME NEW h \in Handlers, NEW u \in Users, Login(h, u) PROVE SessionsEnd'
  BY <1>1 DEF Login, TypeOK, SessionsEnd, OldAreSessions, Subjects, Deletions, Ends, Alive
<1>2. ASSUME NEW h \in Handlers, NEW s \in Sessions, ChangePassword(h, s) PROVE SessionsEnd'
  BY <1>2 DEF ChangePassword, TypeOK, SessionsEnd, OldAreSessions, Subjects, Deletions, Ends, Alive
<1>3. ASSUME NEW h \in Handlers, NEW s \in Sessions, NEW u \in Users, NEW as \in Roles, NEW narrow \in BOOLEAN, CreateUser(h, s, u, as, narrow) PROVE SessionsEnd'
  BY <1>3 DEF CreateUser, TypeOK, SessionsEnd, OldAreSessions, Subjects, Deletions, Ends, Alive
<1>4. ASSUME NEW h \in Handlers, NEW s \in Sessions, NEW u \in Users, NEW a \in Asks, UpdateUser(h, s, u, a) PROVE SessionsEnd'
  BY <1>4, UpdateStatements DEF UpdateUser, TypeOK, SessionsEnd, OldAreSessions, Subjects, Deletions, Ends, Alive
<1>5. ASSUME NEW h \in Handlers, Abandon(h) PROVE SessionsEnd'
  BY <1>5 DEF Abandon, TypeOK, SessionsEnd, OldAreSessions, Subjects, Deletions, Ends
<1>6. ASSUME NEW w \in Workers, WriteRole(w) PROVE SessionsEnd'
  BY <1>6 DEF WriteRole, TypeOK, SessionsEnd, OldAreSessions, Subjects, Deletions, Ends, Runs
<1>7. ASSUME NEW w \in Workers, WritePassword(w) PROVE SessionsEnd'
  BY <1>7 DEF WritePassword, TypeOK, SessionsEnd, OldAreSessions, Subjects, Deletions, Ends, Runs
<1>8. ASSUME NEW w \in Workers, Disable(w) PROVE SessionsEnd'
  BY <1>8 DEF Disable, TypeOK, SessionsEnd, OldAreSessions, Subjects, Deletions, Ends, Runs
<1>9. ASSUME NEW w \in Workers, Enable(w) PROVE SessionsEnd'
  BY <1>9 DEF Enable, TypeOK, SessionsEnd, OldAreSessions, Subjects, Deletions, Ends, Runs
<1>10. ASSUME NEW w \in Workers, WriteScope(w) PROVE SessionsEnd'
  BY <1>10 DEF WriteScope, TypeOK, SessionsEnd, OldAreSessions, Subjects, Deletions, Ends, Runs
<1>11. ASSUME NEW w \in Workers, InsertUser(w) PROVE SessionsEnd'
  BY <1>11 DEF InsertUser, TypeOK, SessionsEnd, OldAreSessions, Subjects, Deletions, Ends, Runs
<1>12. ASSUME NEW w \in Workers, DeleteSessions(w) PROVE SessionsEnd'
  BY <1>12 DEF DeleteSessions, TypeOK, SessionsEnd, OldAreSessions, Subjects, Deletions, Ends, Runs
<1>13. ASSUME NEW w \in Workers, NEW s \in Sessions, OpenSession(w, s) PROVE SessionsEnd'
  BY <1>13 DEF OpenSession, TypeOK, SessionsEnd, OldAreSessions, Subjects, Deletions, Ends, Runs
<1>14. ASSUME NEW s \in Sessions, SessionEnds(s) PROVE SessionsEnd'
  BY <1>14 DEF SessionEnds, TypeOK, SessionsEnd, OldAreSessions, Subjects, Deletions, Ends
<1>15. ASSUME Start PROVE SessionsEnd'
  BY <1>15 DEF Start, TypeOK, SessionsEnd, OldAreSessions, Subjects, Deletions, Ends
<1>16. ASSUME StartWithReset PROVE SessionsEnd'
  BY <1>16 DEF StartWithReset, TypeOK, SessionsEnd, OldAreSessions, Subjects, Deletions, Ends
<1>17. ASSUME Serve PROVE SessionsEnd'
  BY <1>17 DEF Serve, TypeOK, SessionsEnd, OldAreSessions, Subjects, Deletions, Ends
<1>18. ASSUME Stop PROVE SessionsEnd'
  BY <1>18 DEF Stop, TypeOK, SessionsEnd, OldAreSessions, Subjects, Deletions, Ends
<1>19. CASE UNCHANGED vars
  BY <1>19 DEF vars, TypeOK, SessionsEnd, OldAreSessions, Subjects, Deletions, Ends
<1>20. QED
  BY <1>1, <1>2, <1>3, <1>4, <1>5, <1>6, <1>7, <1>8, <1>9, <1>10, <1>11, <1>12, <1>13, <1>14, <1>15, <1>16, <1>17, <1>18, <1>19 DEF Next, Ask, Run

\* The invariant, for every value of the constants.
THEOREM AccountsInvariant == Spec => []AccountsInv
<1>1. AccountsInv /\ [Next]_vars => AccountsInv'
  BY TypeOKStep, SubjectsStep, AuthorsStep, DeletionsStep, OldAreSessionsStep,
     SessionsEndStep DEF AccountsInv
<1>2. QED
  BY AccountsStart, <1>1, PTL DEF Spec

\* Every variable keeps its type.
THEOREM AccountsTypes == Spec => []TypeOK
<1>1. AccountsInv => TypeOK
  BY DEF AccountsInv
<1>2. QED BY <1>1, AccountsInvariant, PTL

\* A session older than a change of its account is gone with that change,
\* unless the change lost its deletion.
THEOREM OldSessionsEnd == Spec => []SessionsEnd
<1>1. AccountsInv => SessionsEnd
  BY DEF AccountsInv
<1>2. QED BY <1>1, AccountsInvariant, PTL

\* An owner's own request takes no owner away but another, so the last one
\* goes only by a request whose author has ceased to be one.
LEMMA OwnerStep ==
    AccountsInv /\ [Next]_vars
    => [ (\E u \in Users : IsOwner(u)) /\ ~(\E u \in Users : IsOwner(u)')
         => \E h \in Handlers : todo'[h] # todo[h] /\ ~IsOwner(by[h]) ]_vars
<1> DEFINE Somebody == \E u \in Users : IsOwner(u)
           Overtaken == \E h \in Handlers : todo'[h] # todo[h] /\ ~IsOwner(by[h])
<1> SUFFICES ASSUME AccountsInv, [Next]_vars, Somebody, ~(\E u \in Users : IsOwner(u)')
            PROVE  Overtaken
  OBVIOUS
<1> USE DEF AccountsInv, TypeOK, Has, Done, Begin, Idle, Changed, table, history, request, Workers
<1>0. ASSUME UNCHANGED <<role, disabled>> PROVE Overtaken
  BY <1>0 DEF IsOwner

<1>1. ASSUME NEW h \in Handlers, NEW u \in Users, Login(h, u) PROVE Overtaken
  BY <1>0, <1>1 DEF Login
<1>2. ASSUME NEW h \in Handlers, NEW s \in Sessions, ChangePassword(h, s) PROVE Overtaken
  BY <1>0, <1>2 DEF ChangePassword
<1>3. ASSUME NEW h \in Handlers, NEW s \in Sessions, NEW u \in Users, NEW as \in Roles, NEW narrow \in BOOLEAN, CreateUser(h, s, u, as, narrow) PROVE Overtaken
  BY <1>0, <1>3 DEF CreateUser
<1>4. ASSUME NEW h \in Handlers, NEW s \in Sessions, NEW u \in Users, NEW a \in Asks, UpdateUser(h, s, u, a) PROVE Overtaken
  BY <1>0, <1>4 DEF UpdateUser
<1>5. ASSUME NEW h \in Handlers, Abandon(h) PROVE Overtaken
  BY <1>0, <1>5 DEF Abandon
<1>6. ASSUME NEW w \in Workers, WriteRole(w) PROVE Overtaken
  <2>1. w \in Handlers /\ by[w] \in Users /\ by[w] # user[w]
    BY <1>6 DEF WriteRole, Runs, Authors
  <2>2. todo'[w] # todo[w]
    BY <1>6 DEF WriteRole, Runs
  <2>3. ASSUME NEW u \in Users, u = by[w], IsOwner(u) PROVE IsOwner(u)'
    BY <1>6, <2>1, <2>3 DEF WriteRole, IsOwner
  <2>4. QED BY <2>1, <2>2, <2>3
<1>7. ASSUME NEW w \in Workers, WritePassword(w) PROVE Overtaken
  BY <1>0, <1>7 DEF WritePassword
<1>8. ASSUME NEW w \in Workers, Disable(w) PROVE Overtaken
  <2>1. w \in Handlers /\ by[w] \in Users /\ by[w] # user[w]
    BY <1>8 DEF Disable, Runs, Authors
  <2>2. todo'[w] # todo[w]
    BY <1>8 DEF Disable, Runs
  <2>3. ASSUME NEW u \in Users, u = by[w], IsOwner(u) PROVE IsOwner(u)'
    BY <1>8, <2>1, <2>3 DEF Disable, IsOwner
  <2>4. QED BY <2>1, <2>2, <2>3
<1>9. ASSUME NEW w \in Workers, Enable(w) PROVE Overtaken
  <2>1. \A u \in Users : IsOwner(u) => IsOwner(u)'
    BY <1>9 DEF Enable, IsOwner
  <2>2. QED BY <2>1
<1>10. ASSUME NEW w \in Workers, WriteScope(w) PROVE Overtaken
  BY <1>0, <1>10 DEF WriteScope
<1>11. ASSUME NEW w \in Workers, InsertUser(w) PROVE Overtaken
  <2>1. \A u \in Users : IsOwner(u) => IsOwner(u)'
    BY <1>11 DEF InsertUser, IsOwner, Runs, Subjects
  <2>2. QED BY <2>1
<1>12. ASSUME NEW w \in Workers, DeleteSessions(w) PROVE Overtaken
  BY <1>0, <1>12 DEF DeleteSessions
<1>13. ASSUME NEW w \in Workers, NEW s \in Sessions, OpenSession(w, s) PROVE Overtaken
  BY <1>0, <1>13 DEF OpenSession
<1>14. ASSUME NEW s \in Sessions, SessionEnds(s) PROVE Overtaken
  BY <1>0, <1>14 DEF SessionEnds
<1>15. ASSUME Start PROVE Overtaken
  BY <1>0, <1>15 DEF Start
<1>16. ASSUME StartWithReset PROVE Overtaken
  BY <1>0, <1>16 DEF StartWithReset
<1>17. ASSUME Serve PROVE Overtaken
  BY <1>0, <1>17 DEF Serve
<1>18. ASSUME Stop PROVE Overtaken
  BY <1>0, <1>18 DEF Stop
<1>19. CASE UNCHANGED vars
  BY <1>0, <1>19 DEF vars
<1>20. QED
  BY <1>1, <1>2, <1>3, <1>4, <1>5, <1>6, <1>7, <1>8, <1>9, <1>10, <1>11, <1>12, <1>13, <1>14, <1>15, <1>16, <1>17, <1>18, <1>19 DEF Next, Ask, Run

\* For any number of owners and requests at once.
THEOREM OnlyTheOvertakenTakeTheLast == Spec => SomebodyOwnsTheSystem
  BY AccountsInvariant, OwnerStep, PTL DEF Spec, SomebodyOwnsTheSystem

-----------------------------------------------------------------------------
(* A forced reset.                                                         *)

\* Nobody is served until the API has started.
Unserved ==
    /\ serving # "up" => \A h \in Handlers : todo[h] = {}
    /\ serving = "down" => todo[Boot] = {}

\* An account is disabled only once it is there, and it stays there.
DisabledExist ==
    /\ \A u \in Users : role[u] = "none" => ~disabled[u]
    /\ \A w \in Workers : "disable" \in todo[w] => role[user[w]] # "none"

\* What a reset has still to run is what is still to be put right.
Resetting ==
    serving = "resetting" =>
        /\ todo[Boot] \subseteq {"insert", "password", "enable", "deleteAll"}
        /\ todo[Boot] # {} => user[Boot] = Admin
        /\ "insert" \in todo[Boot] \/ role[Admin] # "none"
        /\ "enable" \in todo[Boot] \/ ~disabled[Admin]
        /\ "deleteAll" \in todo[Boot] \/ ((\A s \in Sessions : owner[s] = None) /\ cut = {})

ResetInv == Unserved /\ DisabledExist /\ Resetting

\* Requests begin when the API serves and end with it.
LEMMA UnservedStep == AccountsInv /\ ResetInv /\ [Next]_vars => Unserved'
<1> SUFFICES ASSUME AccountsInv, ResetInv, [Next]_vars PROVE Unserved'
  OBVIOUS
<1> USE DEF AccountsInv, ResetInv, TypeOK, Has, Done, Begin, Idle, Changed, table, history,
            request, Workers
<1>1. ASSUME NEW h \in Handlers, NEW u \in Users, Login(h, u) PROVE Unserved'
  BY <1>1 DEF Login, Unserved, Alive
<1>2. ASSUME NEW h \in Handlers, NEW s \in Sessions, ChangePassword(h, s) PROVE Unserved'
  BY <1>2 DEF ChangePassword, Unserved, Alive
<1>3. ASSUME NEW h \in Handlers, NEW s \in Sessions, NEW u \in Users, NEW as \in Roles,
             NEW narrow \in BOOLEAN, CreateUser(h, s, u, as, narrow)
      PROVE  Unserved'
  BY <1>3 DEF CreateUser, Unserved, Alive
<1>4. ASSUME NEW h \in Handlers, NEW s \in Sessions, NEW u \in Users, NEW a \in Asks,
             UpdateUser(h, s, u, a)
      PROVE  Unserved'
  BY <1>4, UpdateStatements DEF UpdateUser, Unserved, Alive
<1>5. ASSUME NEW h \in Handlers, Abandon(h) PROVE Unserved'
  BY <1>5 DEF Abandon, Unserved
<1>6. ASSUME NEW w \in Workers, WriteRole(w) PROVE Unserved'
  BY <1>6 DEF WriteRole, Unserved, Runs, Subjects
<1>7. ASSUME NEW w \in Workers, WritePassword(w) PROVE Unserved'
  BY <1>7 DEF WritePassword, Unserved, Runs, Subjects
<1>8. ASSUME NEW w \in Workers, Disable(w) PROVE Unserved'
  BY <1>8 DEF Disable, Unserved, Runs, Subjects
<1>9. ASSUME NEW w \in Workers, Enable(w) PROVE Unserved'
  BY <1>9 DEF Enable, Unserved, Runs, Subjects
<1>10. ASSUME NEW w \in Workers, WriteScope(w) PROVE Unserved'
  BY <1>10 DEF WriteScope, Unserved, Runs, Subjects
<1>11. ASSUME NEW w \in Workers, InsertUser(w) PROVE Unserved'
  BY <1>11 DEF InsertUser, Unserved, Runs, Subjects
<1>12. ASSUME NEW w \in Workers, DeleteSessions(w) PROVE Unserved'
  BY <1>12, DeletesLast DEF DeleteSessions, Unserved, Runs, Subjects
<1>13. ASSUME NEW w \in Workers, NEW s \in Sessions, OpenSession(w, s) PROVE Unserved'
  BY <1>13 DEF OpenSession, Unserved, Runs, Subjects
<1>14. ASSUME NEW s \in Sessions, SessionEnds(s) PROVE Unserved'
  BY <1>14 DEF SessionEnds, Unserved
<1>15. ASSUME Start PROVE Unserved'
  BY <1>15 DEF Start, Unserved
<1>16. ASSUME StartWithReset PROVE Unserved'
  BY <1>16 DEF StartWithReset, Unserved
<1>17. ASSUME Serve PROVE Unserved'
  BY <1>17 DEF Serve, Unserved
<1>18. ASSUME Stop PROVE Unserved'
  BY <1>18 DEF Stop, Unserved
<1>19. CASE UNCHANGED vars
  BY <1>19 DEF vars, Unserved
<1>20. QED
  BY <1>1, <1>2, <1>3, <1>4, <1>5, <1>6, <1>7, <1>8, <1>9,
     <1>10, <1>11, <1>12, <1>13, <1>14, <1>15, <1>16, <1>17, <1>18, <1>19 DEF Next, Ask, Run

\* An account that may be disabled has been created.
LEMMA DisabledExistStep == AccountsInv /\ ResetInv /\ [Next]_vars => DisabledExist'
<1> SUFFICES ASSUME AccountsInv, ResetInv, [Next]_vars PROVE DisabledExist'
  OBVIOUS
<1> USE DEF AccountsInv, ResetInv, TypeOK, Has, Done, Begin, Idle, Changed, table, history,
            request, Workers
<1>1. ASSUME NEW h \in Handlers, NEW u \in Users, Login(h, u) PROVE DisabledExist'
  BY <1>1 DEF Login, DisabledExist, Alive
<1>2. ASSUME NEW h \in Handlers, NEW s \in Sessions, ChangePassword(h, s) PROVE DisabledExist'
  BY <1>2 DEF ChangePassword, DisabledExist, Alive
<1>3. ASSUME NEW h \in Handlers, NEW s \in Sessions, NEW u \in Users, NEW as \in Roles,
             NEW narrow \in BOOLEAN, CreateUser(h, s, u, as, narrow)
      PROVE  DisabledExist'
  BY <1>3 DEF CreateUser, DisabledExist, Alive
<1>4. ASSUME NEW h \in Handlers, NEW s \in Sessions, NEW u \in Users, NEW a \in Asks,
             UpdateUser(h, s, u, a)
      PROVE  DisabledExist'
  BY <1>4, UpdateStatements DEF UpdateUser, DisabledExist, Alive
<1>5. ASSUME NEW h \in Handlers, Abandon(h) PROVE DisabledExist'
  BY <1>5 DEF Abandon, DisabledExist
<1>6. ASSUME NEW w \in Workers, WriteRole(w) PROVE DisabledExist'
  BY <1>6 DEF WriteRole, DisabledExist, Runs, Subjects
<1>7. ASSUME NEW w \in Workers, WritePassword(w) PROVE DisabledExist'
  BY <1>7 DEF WritePassword, DisabledExist, Runs, Subjects
<1>8. ASSUME NEW w \in Workers, Disable(w) PROVE DisabledExist'
  BY <1>8 DEF Disable, DisabledExist, Runs, Subjects
<1>9. ASSUME NEW w \in Workers, Enable(w) PROVE DisabledExist'
  BY <1>9 DEF Enable, DisabledExist, Runs, Subjects
<1>10. ASSUME NEW w \in Workers, WriteScope(w) PROVE DisabledExist'
  BY <1>10 DEF WriteScope, DisabledExist, Runs, Subjects
<1>11. ASSUME NEW w \in Workers, InsertUser(w) PROVE DisabledExist'
  BY <1>11 DEF InsertUser, DisabledExist, Runs, Subjects
<1>12. ASSUME NEW w \in Workers, DeleteSessions(w) PROVE DisabledExist'
  BY <1>12, DeletesLast DEF DeleteSessions, DisabledExist, Runs, Subjects
<1>13. ASSUME NEW w \in Workers, NEW s \in Sessions, OpenSession(w, s) PROVE DisabledExist'
  BY <1>13 DEF OpenSession, DisabledExist, Runs, Subjects
<1>14. ASSUME NEW s \in Sessions, SessionEnds(s) PROVE DisabledExist'
  BY <1>14 DEF SessionEnds, DisabledExist
<1>15. ASSUME Start PROVE DisabledExist'
  BY <1>15 DEF Start, DisabledExist
<1>16. ASSUME StartWithReset PROVE DisabledExist'
  BY <1>16 DEF StartWithReset, DisabledExist
<1>17. ASSUME Serve PROVE DisabledExist'
  BY <1>17 DEF Serve, DisabledExist
<1>18. ASSUME Stop PROVE DisabledExist'
  BY <1>18 DEF Stop, DisabledExist
<1>19. CASE UNCHANGED vars
  BY <1>19 DEF vars, DisabledExist
<1>20. QED
  BY <1>1, <1>2, <1>3, <1>4, <1>5, <1>6, <1>7, <1>8, <1>9,
     <1>10, <1>11, <1>12, <1>13, <1>14, <1>15, <1>16, <1>17, <1>18, <1>19 DEF Next, Ask, Run

\* Only the reset itself runs before the API serves, and each of its statements
\* puts right what it is there for.
LEMMA ResettingStep == AccountsInv /\ ResetInv /\ [Next]_vars => Resetting'
<1> SUFFICES ASSUME AccountsInv, ResetInv, [Next]_vars PROVE Resetting'
  OBVIOUS
<1> USE DEF AccountsInv, ResetInv, TypeOK, Has, Done, Begin, Idle, Changed, table, history,
            request, Workers
<1>1. ASSUME NEW h \in Handlers, NEW u \in Users, Login(h, u) PROVE Resetting'
  BY <1>1 DEF Login, Resetting, Unserved, DisabledExist, Alive
<1>2. ASSUME NEW h \in Handlers, NEW s \in Sessions, ChangePassword(h, s) PROVE Resetting'
  BY <1>2 DEF ChangePassword, Resetting, Unserved, DisabledExist, Alive
<1>3. ASSUME NEW h \in Handlers, NEW s \in Sessions, NEW u \in Users, NEW as \in Roles,
             NEW narrow \in BOOLEAN, CreateUser(h, s, u, as, narrow)
      PROVE  Resetting'
  BY <1>3 DEF CreateUser, Resetting, Unserved, DisabledExist, Alive
<1>4. ASSUME NEW h \in Handlers, NEW s \in Sessions, NEW u \in Users, NEW a \in Asks,
             UpdateUser(h, s, u, a)
      PROVE  Resetting'
  BY <1>4, UpdateStatements DEF UpdateUser, Resetting, Unserved, DisabledExist, Alive
<1>5. ASSUME NEW h \in Handlers, Abandon(h) PROVE Resetting'
  BY <1>5 DEF Abandon, Resetting, Unserved, DisabledExist
<1>6. ASSUME NEW w \in Workers, WriteRole(w) PROVE Resetting'
  BY <1>6 DEF WriteRole, Resetting, Unserved, DisabledExist, Runs, Subjects
<1>7. ASSUME NEW w \in Workers, WritePassword(w) PROVE Resetting'
  BY <1>7 DEF WritePassword, Resetting, Unserved, DisabledExist, Runs, Subjects
<1>8. ASSUME NEW w \in Workers, Disable(w) PROVE Resetting'
  BY <1>8 DEF Disable, Resetting, Unserved, DisabledExist, Runs, Subjects
<1>9. ASSUME NEW w \in Workers, Enable(w) PROVE Resetting'
  BY <1>9 DEF Enable, Resetting, Unserved, DisabledExist, Runs, Subjects
<1>10. ASSUME NEW w \in Workers, WriteScope(w) PROVE Resetting'
  BY <1>10 DEF WriteScope, Resetting, Unserved, DisabledExist, Runs, Subjects
<1>11. ASSUME NEW w \in Workers, InsertUser(w) PROVE Resetting'
  BY <1>11 DEF InsertUser, Resetting, Unserved, DisabledExist, Runs, Subjects
<1>12. ASSUME NEW w \in Workers, DeleteSessions(w) PROVE Resetting'
  <2>1. CASE serving = "resetting"
    <3>1. w = Boot
      BY <1>12, <2>1 DEF DeleteSessions, Runs, Unserved
    <3>2. /\ \A s \in Sessions : owner'[s] = None
          /\ cut' = {}
      BY <1>12, <2>1, <3>1 DEF DeleteSessions, Runs, Resetting
    <3>3. todo'[Boot] \subseteq todo[Boot] \ {"deleteAll"}
      BY <1>12, <2>1, <3>1 DEF DeleteSessions, Runs, Resetting
    <3>4. /\ todo[Boot] \ todo'[Boot] \subseteq {"deleteAll"}
          /\ todo'[Boot] # {} => user'[Boot] = Admin
          /\ UNCHANGED <<serving, role, disabled>>
      BY <1>12, <2>1, <3>1 DEF DeleteSessions, Runs, Resetting
    <3>5. QED BY <3>2, <3>3, <3>4 DEF Resetting
  <2>2. CASE serving # "resetting"
    BY <1>12, <2>2 DEF DeleteSessions, Resetting
  <2>3. QED BY <2>1, <2>2
<1>13. ASSUME NEW w \in Workers, NEW s \in Sessions, OpenSession(w, s) PROVE Resetting'
  BY <1>13 DEF OpenSession, Resetting, Unserved, DisabledExist, Runs, Subjects
<1>14. ASSUME NEW s \in Sessions, SessionEnds(s) PROVE Resetting'
  BY <1>14 DEF SessionEnds, Resetting, Unserved, DisabledExist
<1>15. ASSUME Start PROVE Resetting'
  BY <1>15 DEF Start, Resetting, Unserved, DisabledExist
<1>16. ASSUME StartWithReset PROVE Resetting'
  BY <1>16 DEF StartWithReset, Resetting, Unserved, DisabledExist
<1>17. ASSUME Serve PROVE Resetting'
  BY <1>17 DEF Serve, Resetting, Unserved, DisabledExist
<1>18. ASSUME Stop PROVE Resetting'
  BY <1>18 DEF Stop, Resetting, Unserved, DisabledExist
<1>19. CASE UNCHANGED vars
  BY <1>19 DEF vars, Resetting, Unserved, DisabledExist
<1>20. QED
  BY <1>1, <1>2, <1>3, <1>4, <1>5, <1>6, <1>7, <1>8, <1>9,
     <1>10, <1>11, <1>12, <1>13, <1>14, <1>15, <1>16, <1>17, <1>18, <1>19 DEF Next, Ask, Run

\* Whatever was cut short before it, a forced reset leaves no session from before
\* and the account it is for open.
THEOREM ResetsTakeEffect == Spec => ResetTakesEffect
<1>1. Init => ResetInv
  BY DEF Init, ResetInv, Unserved, DisabledExist, Resetting, Workers
<1>2. AccountsInv /\ ResetInv /\ [Next]_vars => ResetInv'
  BY UnservedStep, DisabledExistStep, ResettingStep DEF ResetInv
<1>3. Spec => []ResetInv
  BY <1>1, <1>2, AccountsInvariant, PTL DEF Spec
<1> DEFINE Opened == serving = "resetting" /\ serving' = "up"
                     => /\ \A s \in Sessions : owner[s] = None
                        /\ role[Admin] # "none" /\ ~disabled[Admin]
                        /\ cut = {}
<1>4. AccountsInv /\ ResetInv /\ [Next]_vars => [Opened]_vars
  <2> SUFFICES ASSUME ResetInv, [Next]_vars, serving = "resetting", serving' = "up"
               PROVE  todo[Boot] = {}
    BY DEF ResetInv, Resetting
  <2>1. Serve
    BY DEF Next, Ask, Run, Login, ChangePassword, CreateUser, UpdateUser, Abandon, WriteRole,
           WritePassword, Disable, Enable, WriteScope, InsertUser, DeleteSessions, OpenSession,
           SessionEnds, Start, StartWithReset, Stop, Begin, vars
  <2>2. QED BY <2>1 DEF Serve, Idle
<1>5. QED BY <1>3, <1>4, AccountsInvariant, PTL DEF Spec, ResetTakesEffect
=============================================================================
