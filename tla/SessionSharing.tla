---------------------------- MODULE SessionSharing ----------------------------
(***************************************************************************)
(* User sessions of the web application and the files it shares with       *)
(* bmcweb: SessionStore and ConfigFile (service/session.cpp), authenticate *)
(* (service/authorization.hpp) and Router::process, which re-reads the     *)
(* files before every request and commits them after every successful      *)
(* authentication.                                                         *)
(*                                                                         *)
(* bmcweb is external: it logs users in and out and rewrites its file.     *)
(* A file parses ("json") or does not ("garbled": truncated by an          *)
(* unfinished write, or the tail of a longer text behind a shorter one).   *)
(* Its length counts the sessions it holds and one for the rest, which is  *)
(* what decides whether a second writer covers the first one's text.       *)
(* The clock is std::chrono::steady_clock: a unit of time is a fraction of *)
(* a second, `Second` of them make one.                                    *)
(***************************************************************************)
EXTENDS Integers, FiniteSets, Sequences

CONSTANTS Workers,       \* request threads of the FastCGI manager
          Tokens,        \* session tokens bmcweb hands out
          BasicTokens,   \* tokens generated for Basic authentication (bound)
          None,
          Requests,      \* the credentials requests carry, in the order
                         \* authenticate tries them
          Methods,       \* enabled methods, AuthConfigMethods
          Second,        \* units of time in std::chrono::seconds(1)
          Timeout,       \* timeoutInSeconds, in units of time
          FirstFiles,    \* the files before the first request
          MaxTime,       \* bound: units of time
          MaxRestarts    \* bound: restarts of the application

Storages == <<"configLongTermStorage", "configCurrentBmcSession">>
StorageTypes == {Storages[k] : k \in DOMAIN Storages}
AllTokens == Tokens \cup BasicTokens
Credential == [by : {"xtoken", "cookie", "sessionToken", "basic"},
               token : Tokens \cup {None}]   \* None: nobody's token

ASSUME SessionAssumption ==
    /\ IsFiniteSet(AllTokens) /\ Tokens \cap BasicTokens = {}
    /\ None \notin AllTokens \cup Workers
    /\ Requests \subseteq Seq(Credential)
    /\ Methods \subseteq {"xtoken", "cookie", "sessionToken", "basic"}
    /\ Second \in Nat \ {0} /\ Timeout \in Nat \ {0}
    /\ MaxTime \in Nat /\ MaxRestarts \in Nat
    /\ FirstFiles \subseteq
            [StorageTypes -> [state : {"missing", "garbled", "json"},
                              sessions : SUBSET Tokens, length : Nat]]

VARIABLES files,             \* storage -> file
          authTokens,        \* SessionStore::authTokens, token -> session
          lastTimeoutUpdate,
          systemUuid,        \* the uuid is known
          mutex,             \* the static mutex of readData
          worker,            \* what each request thread is doing
          now, restarts,
          bmcweb,            \* storage -> sessions bmcweb holds
          loggedOut,         \* storage -> sessions it has ended
          timedOut           \* tokens whose session the sweep ended

storeVars == <<authTokens, lastTimeoutUpdate>>
externalVars == <<now, restarts, bmcweb, loggedOut>>
vars == <<files, storeVars, systemUuid, mutex, worker, externalVars, timedOut>>

Session == [lastUpdated : Int, persistence : {"TIMEOUT", "SINGLE_REQUEST"},
            storageType : StorageTypes]
NoSession == [lastUpdated |-> -1, persistence |-> "TIMEOUT",
              storageType |-> Storages[1]]

Missing == [state |-> "missing", sessions |-> {}, length |-> 0]
Json(S) == [state |-> "json", sessions |-> S, length |-> Cardinality(S) + 1]
Garbled(n) == [state |-> "garbled", sessions |-> {}, length |-> n]

\* The default time_point of lastTimeoutUpdate: the first sweep is due.
LongAgo == -Second - 1

Idle == [pc |-> "idle", file |-> 1, out |-> 1, back |-> "idle",
         creds |-> <<>>, session |-> None, age |-> 0]

Known(t) == authTokens[t] # NoSession

\* readData of all files, with the commit it makes for a uuid that is new.
InReadData(w) ==
    \/ worker[w].pc = "read"
    \/ worker[w].pc \in {"open", "write"} /\ worker[w].back = "read"

SessionTypeOK ==
    /\ \A s \in StorageTypes :
        /\ files[s].state \in {"missing", "garbled", "json"}
        /\ files[s].sessions \subseteq AllTokens
        /\ files[s].length \in Nat
        /\ bmcweb[s] \cup loggedOut[s] \subseteq Tokens
    /\ authTokens \in [AllTokens -> Session \cup {NoSession}]
    /\ systemUuid \in BOOLEAN
    /\ mutex \in Workers \cup {None}
    /\ \A w \in Workers :
        /\ worker[w].pc \in {"idle", "lock", "read", "auth", "open", "write", "run"}
        /\ worker[w].file \in 1..Len(Storages) + 1
        /\ worker[w].out \in 1..Len(Storages)
        /\ worker[w].back \in {"idle", "read", "commit", "run"}
        /\ worker[w].session \in AllTokens \cup {None}
        /\ InReadData(w) <=> mutex = w
    /\ timedOut \subseteq AllTokens
    /\ now \in 0..MaxTime /\ restarts \in 0..MaxRestarts

Init ==
    /\ \E f \in FirstFiles : /\ files = f
                             /\ bmcweb = [s \in StorageTypes |-> f[s].sessions]
    /\ authTokens = [t \in AllTokens |-> NoSession]
    /\ lastTimeoutUpdate = LongAgo
    /\ systemUuid = FALSE
    /\ mutex = None
    /\ worker = [w \in Workers |-> Idle]
    /\ now = 0 /\ restarts = 0
    /\ loggedOut = [s \in StorageTypes |-> {}]
    /\ timedOut = {}

-----------------------------------------------------------------------------
(* Slips in this code that the runs detect *)

\* A sweep that keeps a session at the very moment its time is over.
ExpiredLate(t) == now - authTokens[t].lastUpdated > Timeout

\* populateSessions without the test of the persistence.
PopulateAny(s) == {t \in AllTokens : Known(t) /\ authTokens[t].storageType = s}

\* The lock of readData is not given back.
LockKept(w) == w

-----------------------------------------------------------------------------
(* ConfigFile *)

\* populateSessions: SINGLE_REQUEST sessions and other storages are left out.
populateSessions(s) ==
    {t \in AllTokens : /\ Known(t)
                       /\ authTokens[t].persistence # "SINGLE_REQUEST"
                       /\ authTokens[t].storageType = s}

\* The text lands at the start of the file and covers what is not longer.
Overwrite(f, S) == IF f.length <= Cardinality(S) + 1 THEN Json(S)
                   ELSE Garbled(f.length)

\* A request arrives and Router::process calls readData.
Arrive(w) ==
    /\ worker[w].pc = "idle"
    /\ \E r \in Requests :
        worker' = [worker EXCEPT ![w] =
            [Idle EXCEPT !.pc = "lock", !.creds = r]]
    /\ UNCHANGED <<files, storeVars, systemUuid, mutex, externalVars, timedOut>>

Lock(w) ==
    /\ worker[w].pc = "lock" /\ mutex = None
    /\ mutex' = w
    /\ worker' = [worker EXCEPT ![w].pc = "read"]
    /\ UNCHANGED <<files, storeVars, systemUuid, externalVars, timedOut>>

Reading(w, k) == worker[w].pc = "read" /\ worker[w].file = k

\* restore(): emplace keeps the session of a token that is known.
Restored(s) ==
    [t \in AllTokens |->
        IF t \in files[s].sessions /\ ~Known(t)
        THEN [lastUpdated |-> now, persistence |-> "TIMEOUT", storageType |-> s]
        ELSE authTokens[t]]

\* readData of one file.  One that does not parse ends it early; after another
\* one a uuid that is still unknown is generated and committed.
ReadFile(w, k) ==
    /\ Reading(w, k)
    /\ LET s == Storages[k]
           f == files[s]
           known == systemUuid \/ (f.state = "json" /\ k = 1) IN
        /\ authTokens' = IF f.state = "json" THEN Restored(s) ELSE authTokens
        /\ \/ /\ f.state = "garbled" \/ known
              /\ worker' = [worker EXCEPT ![w].file = k + 1]
              /\ systemUuid' = known
           \/ /\ f.state # "garbled" /\ ~known
              /\ worker' = [worker EXCEPT ![w].pc = "open", ![w].back = "read",
                                          ![w].file = k + 1]
              /\ systemUuid' = TRUE
    /\ UNCHANGED <<files, lastTimeoutUpdate, mutex, externalVars, timedOut>>

\* The mutex is free when readData has returned.
MutexAfterRead(w) == None

\* isOnWhitelist: some requests go to their handler with no session.
ReadDone(w) ==
    /\ Reading(w, Len(Storages) + 1)
    /\ mutex' = MutexAfterRead(w)
    /\ \E next \in {"auth", "run"} :
        worker' = [worker EXCEPT ![w].pc = next, ![w].file = 1]
    /\ UNCHANGED <<files, storeVars, systemUuid, externalVars, timedOut>>

\* commit(), which takes no lock: writeData opens the file, which truncates it,
CommitOpen(w) ==
    /\ worker[w].pc = "open"
    /\ files' = [files EXCEPT ![Storages[worker[w].out]] = Garbled(0)]
    /\ worker' = [worker EXCEPT ![w].pc = "write"]
    /\ UNCHANGED <<storeVars, systemUuid, mutex, externalVars, timedOut>>

\* Where a worker goes when its commit is over.  A session generated for Basic
\* is committed by storeAuthToken and again by authenticate.
AfterCommit(v) ==
    IF v.back = "commit" THEN [v EXCEPT !.pc = "open", !.out = 1, !.back = "run"]
    ELSE [v EXCEPT !.pc = v.back, !.out = 1, !.back = "idle"]

\* and writes the sessions of its storage type.
CommitWrite(w) ==
    /\ worker[w].pc = "write"
    /\ LET k == worker[w].out
           s == Storages[k] IN
        /\ files' = [files EXCEPT ![s] = Overwrite(@, populateSessions(s))]
        /\ worker' = [worker EXCEPT ![w] =
                        IF k < Len(Storages)
                        THEN [@ EXCEPT !.pc = "open", !.out = k + 1]
                        ELSE AfterCommit(@)]
    /\ UNCHANGED <<storeVars, systemUuid, mutex, externalVars, timedOut>>

-----------------------------------------------------------------------------
(* authenticate *)

\* applySessionTimeouts: a session has been idle for the whole timeout.
Expired(t) == now - authTokens[t].lastUpdated >= Timeout

\* The sweep runs at most once in any interval of one second.
SweepDue == now - lastTimeoutUpdate > Second

Swept == [t \in AllTokens |->
            IF SweepDue /\ Known(t) /\ Expired(t) THEN NoSession ELSE authTokens[t]]

Trying(w, methods) ==
    /\ worker[w].pc = "auth" /\ worker[w].creds # <<>>
    /\ Head(worker[w].creds).by \in methods

NextCredential(w) == [worker EXCEPT ![w].creds = Tail(@)]

\* The request is authenticated as token t: authenticate commits the files.
Accepted(w, t, back) ==
    [worker EXCEPT ![w].pc = "open", ![w].back = back, ![w].creds = <<>>,
                   ![w].session = t,
                   ![w].age = IF Known(t) THEN now - authTokens[t].lastUpdated ELSE 0]

\* A method that is switched off is passed over.
SkipMethod(w) ==
    /\ worker[w].pc = "auth" /\ worker[w].creds # <<>>
    /\ Head(worker[w].creds).by \notin Methods
    /\ worker' = NextCredential(w)
    /\ UNCHANGED <<files, storeVars, systemUuid, mutex, externalVars, timedOut>>

\* loginSessionByToken for X-Auth-Token, the SESSION cookie and "Token ".  Of a
\* cookie the CSRF token is tested after the session was refreshed.
LoginByToken(w) ==
    /\ Trying(w, Methods \ {"basic"})
    /\ lastTimeoutUpdate' = IF SweepDue THEN now ELSE lastTimeoutUpdate
    /\ timedOut' = timedOut \cup {t \in AllTokens : Swept[t] # authTokens[t]}
    /\ LET c == Head(worker[w].creds)
           t == c.token
           found == t # None /\ Swept[t] # NoSession IN
        \/ /\ ~found
           /\ authTokens' = Swept
           /\ worker' = NextCredential(w)
        \/ /\ found
           /\ authTokens' = [Swept EXCEPT ![t].lastUpdated = now]
           /\ \/ worker' = Accepted(w, t, "run")
              \/ c.by = "cookie" /\ worker' = NextCredential(w)
    /\ UNCHANGED <<files, systemUuid, mutex, externalVars>>

\* performBasicAuth: PAM refuses, or newBasicAuthSession stores a session.
BasicAuth(w) ==
    /\ Trying(w, Methods \cap {"basic"})
    /\ \/ /\ worker' = NextCredential(w)
          /\ UNCHANGED authTokens
       \/ \E t \in BasicTokens :
            /\ ~Known(t) /\ \A v \in Workers : worker[v].session # t
            /\ authTokens' = [authTokens EXCEPT ![t] =
                    [lastUpdated |-> now, persistence |-> "SINGLE_REQUEST",
                     storageType |-> "configLongTermStorage"]]
            /\ worker' = Accepted(w, t, "commit")
    /\ UNCHANGED <<files, lastTimeoutUpdate, systemUuid, mutex, externalVars,
                   timedOut>>

\* No credential is left: 401 or the redirection to the login page.
Reject(w) ==
    /\ worker[w].pc = "auth" /\ worker[w].creds = <<>>
    /\ worker' = [worker EXCEPT ![w] = Idle]
    /\ UNCHANGED <<files, storeVars, systemUuid, mutex, externalVars, timedOut>>

\* The handler ran and the response is sent.
Respond(w) ==
    /\ worker[w].pc = "run"
    /\ worker' = [worker EXCEPT ![w] = Idle]
    /\ UNCHANGED <<files, storeVars, systemUuid, mutex, externalVars, timedOut>>

WorkerStep(w) ==
    \/ Lock(w) \/ (\E k \in DOMAIN Storages : ReadFile(w, k)) \/ ReadDone(w)
    \/ CommitOpen(w) \/ CommitWrite(w) \/ SkipMethod(w) \/ LoginByToken(w)
    \/ BasicAuth(w) \/ Reject(w) \/ Respond(w)

-----------------------------------------------------------------------------
(* The rest of the world *)

\* bmcweb logs a user in and rewrites its file.
Login(t, s) ==
    /\ \A r \in StorageTypes : t \notin bmcweb[r] \cup loggedOut[r]
    /\ bmcweb' = [bmcweb EXCEPT ![s] = @ \cup {t}]
    /\ files' = [files EXCEPT ![s] = Json(bmcweb'[s])]
    /\ UNCHANGED <<storeVars, systemUuid, mutex, worker, now, restarts, loggedOut,
                   timedOut>>

\* bmcweb logs a user out and rewrites its file.
Logout(t, s) ==
    /\ t \in bmcweb[s]
    /\ bmcweb' = [bmcweb EXCEPT ![s] = @ \ {t}]
    /\ loggedOut' = [loggedOut EXCEPT ![s] = @ \cup {t}]
    /\ files' = [files EXCEPT ![s] = Json(bmcweb'[s])]
    /\ UNCHANGED <<storeVars, systemUuid, mutex, worker, now, restarts, timedOut>>

Tick ==
    /\ now < MaxTime
    /\ now' = now + 1
    /\ UNCHANGED <<files, storeVars, systemUuid, mutex, worker, restarts, bmcweb,
                   loggedOut, timedOut>>

\* The application stops at any moment and starts again with what is on disk.
Restart ==
    /\ restarts < MaxRestarts
    /\ restarts' = restarts + 1
    /\ authTokens' = [t \in AllTokens |-> NoSession]
    /\ lastTimeoutUpdate' = LongAgo
    /\ systemUuid' = FALSE
    /\ mutex' = None
    /\ worker' = [w \in Workers |-> Idle]
    /\ timedOut' = {}
    /\ UNCHANGED <<files, now, bmcweb, loggedOut>>

Next ==
    \/ \E w \in Workers : Arrive(w) \/ WorkerStep(w)
    \/ \E t \in Tokens, s \in StorageTypes : Login(t, s) \/ Logout(t, s)
    \/ Tick
    \/ Restart

\* Threads run; a thread that keeps finding the mutex free gets it (the mutex is
\* all that can disable a thread again).
Fairness == \A w \in Workers : SF_vars(WorkerStep(w))

Spec == Init /\ [][Next]_vars /\ Fairness

-----------------------------------------------------------------------------
\* What the files ever hold are sessions bmcweb logged in, each in the file of
\* its storage type: no Basic session of a single request is ever persisted,
\* where the next readData would turn it into a TIMEOUT session.
FilesHoldLogins ==
    \A s \in StorageTypes : files[s].sessions \subseteq bmcweb[s] \cup loggedOut[s]

\* Why that is so, and stays so across commits and restarts: a session in memory
\* that may be written is one that bmcweb made, with the storage type of the file
\* it was restored from.  Everything else in memory is of a single request.
LoginsInv ==
    /\ FilesHoldLogins
    /\ authTokens \in [AllTokens -> Session \cup {NoSession}]
    /\ files = [s \in StorageTypes |-> files[s]]
    /\ bmcweb \in [StorageTypes -> SUBSET Tokens]
    /\ loggedOut \in [StorageTypes -> SUBSET Tokens]
    /\ now \in Int
    /\ \A t \in AllTokens :
        Known(t) /\ authTokens[t].persistence # "SINGLE_REQUEST"
            => LET s == authTokens[t].storageType
               IN  t \in bmcweb[s] \cup loggedOut[s]

\* The throttled sweep and the ">=" test together: a sweep right before the end of
\* a session keeps it, and no other runs for a second; so a session that is
\* accepted out of the store may be overdue, but by less than that second.
AcceptedIsFresh == \A w \in Workers : worker[w].age < Timeout + Second

\* PersistenceType::TIMEOUT: "User session times out after a predetermined
\* amount of time".  A session that timed out is not accepted afterwards.
TimedOutRejected ==
    [][\A w \in Workers :
        worker'[w].session # worker[w].session => worker'[w].session \notin timedOut]_vars
================================================================================
