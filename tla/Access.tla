------------------------------- MODULE Access -------------------------------
(***************************************************************************)
(* The login of a session: AuthUser of server/server.go, which finds the   *)
(* access of the user in the configuration or asks the webhook, and loads  *)
(* its file system or takes it from the cache of shared ones; with         *)
(* GetAccess of config/config.go, the loading of fs/fs.go, and the         *)
(* keycloak backend, which checks the password while it loads.             *)
(*                                                                         *)
(* Sessions log in concurrently and a reload may replace the configuration *)
(* between any two steps.  The access entries are shared objects: GetAccess*)
(* hands out pointers into the content it found, which outlive a reload,   *)
(* and it writes the user and the password of the session into a keycloak  *)
(* entry.  loadFs holds the mutex of the cache while the backend answers.  *)
(*                                                                         *)
(* A password stands for what a stored password, plain or hashed, matches; *)
(* Undecodable is a stored hash that cannot be decoded.                    *)
(***************************************************************************)
EXTENDS Integers, Sequences, FiniteSets

CONSTANTS
  Sessions,     \* the sessions that log in, once each
  Users,        \* the names they log in with
  Passwords,    \* and the passwords
  Undecodable,  \* the stored password that is an error to compare with
  Nobody,       \* the user of an entry that names none
  Bases,        \* the base directories of the entries, "" for none
  Contents,     \* the contents the configuration file takes
  WebAnswers,   \* the accesses the webhook knows
  Realm,        \* the password of each user at the keycloak server
  NoFs,         \* no file system
  NoOne,        \* the holder of a free mutex
  MaxReloads    \* bound: how often the configuration is reloaded

Names == Users \cup {Nobody}

AccessType ==
  [user : Names, pass : Passwords \cup {Undecodable}, fs : {"os", "keycloak"},
   base : Bases, readOnly : BOOLEAN, shared : BOOLEAN]

ContentType == [webhook : BOOLEAN, accesses : Seq(AccessType)]

\* A loaded file system: the parts of the access it was loaded from that the
\* properties tell apart, and the user its directory is named after.
FsType == [id : Nat, user : Names, base : Bases, dirUser : Names, readOnly : BOOLEAN,
           shared : BOOLEAN]

ASSUME NamesAssumption == NoOne \notin Sessions /\ NoFs \notin FsType

ASSUME BasesAssumption == "" \in Bases

ASSUME ContentsAssumption == Contents \subseteq ContentType

ASSUME WebAnswersAssumption == WebAnswers \subseteq AccessType

VARIABLES
  heap,       \* the contents loaded so far; the last is s.config.Content
  cache,      \* s.accesses.accesses: the shared file system of each user
  cacheLock,  \* who holds the mutex of the cache
  loads,      \* how many file systems were made
  session     \* where each session is in AuthUser, and what it has

vars == <<heap, cache, cacheLock, loads, session>>

Content == heap[Len(heap)]

\* A session's access: an entry of a content, or the webhook's answer.
Access(s) ==
  IF session[s].gen = 0
    THEN session[s].own
    ELSE heap[session[s].gen].accesses[session[s].entry]

Phases == {"idle", "webhook", "asked", "local", "storePass", "loadFs", "checkPasswd",
           "joinPath", "load", "store", "serving", "refused"}

\* The phases of loadFs that hold the mutex of the cache.
Holding == {"checkPasswd", "joinPath", "load", "store"}

SessionType ==
  [at : Phases, user : Names, pass : Passwords \cup {Undecodable}, gen : Nat, entry : Nat,
   own : AccessType, fs : FsType \cup {NoFs}]

\* The mutex is held by who is between the lookup and the store.
LockHeld == \A s \in Sessions : session[s].at \in Holding <=> cacheLock = s

TypeOK ==
  /\ heap \in Seq(ContentType) /\ heap # <<>>
  /\ cache \in [Names -> FsType \cup {NoFs}]
  /\ cacheLock \in Sessions \cup {NoOne}
  /\ loads \in Nat
  /\ session \in [Sessions -> SessionType]
  /\ LockHeld

NoAccess == [user |-> Nobody, pass |-> Undecodable, fs |-> "os", base |-> "",
             readOnly |-> FALSE, shared |-> FALSE]

Init ==
  /\ \E content \in Contents : heap = <<content>>
  /\ cache = [u \in Names |-> NoFs]
  /\ cacheLock = NoOne
  /\ loads = 0
  /\ session = [s \in Sessions |->
       [at |-> "idle", user |-> Nobody, pass |-> Undecodable, gen |-> 0, entry |-> 0,
        own |-> NoAccess, fs |-> NoFs]]

Goto(s, phase) == session' = [session EXCEPT ![s].at = phase]

\* A successful load of the configuration: all entries are new objects.
Reload ==
  /\ Len(heap) <= MaxReloads
  /\ \E content \in Contents : heap' = Append(heap, content)
  /\ UNCHANGED <<cache, cacheLock, loads, session>>

-----------------------------------------------------------------------------
(* AuthUser: where the access comes from.                                  *)

AuthUser(s) ==
  /\ session[s].at = "idle"
  /\ \E u \in Users, p \in Passwords :
       session' = [session EXCEPT
         ![s].user = u, ![s].pass = p,
         ![s].at = IF Content.webhook THEN "webhook" ELSE "local"]
  /\ UNCHANGED <<heap, cache, cacheLock, loads>>

\* The webhook's settings are read again from the configuration: without
\* them now, a nil dereference, which the library recovers from.
AskWebhook(s) ==
  /\ session[s].at = "webhook"
  /\ Goto(s, IF Content.webhook THEN "asked" ELSE "refused")
  /\ UNCHANGED <<heap, cache, cacheLock, loads>>

WebhookFails(s) ==
  /\ session[s].at = "asked"
  /\ Goto(s, "refused")
  /\ UNCHANGED <<heap, cache, cacheLock, loads>>

\* Whatever the webhook answers is the access of the session: nothing compares
\* its user with the one the webhook was asked about.
WebhookAnswers(s) ==
  /\ session[s].at = "asked"
  /\ \E a \in WebAnswers :
       session' = [session EXCEPT ![s].own = a, ![s].at = "loadFs"]
  /\ UNCHANGED <<heap, cache, cacheLock, loads>>

\* The loop of GetAccess ends at entry a, for user u with password p.
Decides(a, u, p) ==
  \/ a.fs = "keycloak"
  \/ a.user = u /\ a.pass \in {p, Undecodable}

Entries == DOMAIN Content.accesses

\* Entry i is where the loop ends for session s.
Deciding(s, i) ==
  /\ Decides(Content.accesses[i], session[s].user, session[s].pass)
  /\ \A j \in 1 .. i - 1 :
       ~Decides(Content.accesses[j], session[s].user, session[s].pass)

\* An unknown user, a wrong password, or a hash that cannot be decoded.
GetAccessFails(s) ==
  /\ session[s].at = "local"
  /\ \A i \in Entries :
       Deciding(s, i) => /\ Content.accesses[i].fs # "keycloak"
                        /\ Content.accesses[i].pass = Undecodable
  /\ Goto(s, "refused")
  /\ UNCHANGED <<heap, cache, cacheLock, loads>>

GetAccess(s) ==
  /\ session[s].at = "local"
  /\ \E i \in Entries :
       /\ Deciding(s, i)
       /\ Content.accesses[i].fs # "keycloak"
       /\ Content.accesses[i].pass # Undecodable
       /\ session' = [session EXCEPT ![s].gen = Len(heap), ![s].entry = i, ![s].at = "loadFs"]
  /\ UNCHANGED <<heap, cache, cacheLock, loads>>

\* a.User = user, then a.Pass = pass, on the entry that all sessions share.
GetKeycloakAccess(s) ==
  /\ session[s].at = "local"
  /\ \E i \in Entries :
       /\ Deciding(s, i)
       /\ Content.accesses[i].fs = "keycloak"
       /\ heap' = [heap EXCEPT ![Len(heap)].accesses[i].user = session[s].user]
       /\ session' = [session EXCEPT ![s].gen = Len(heap), ![s].entry = i,
                                     ![s].at = "storePass"]
  /\ UNCHANGED <<cache, cacheLock, loads>>

StorePass(s) ==
  /\ session[s].at = "storePass"
  /\ heap' = [heap EXCEPT ![session[s].gen].accesses[session[s].entry].pass = session[s].pass]
  /\ Goto(s, "loadFs")
  /\ UNCHANGED <<cache, cacheLock, loads>>

-----------------------------------------------------------------------------
(* loadFs: the cache, and the backend.                                     *)

UseCached(s) ==
  /\ session[s].at = "loadFs"
  /\ cacheLock = NoOne
  /\ cache[Access(s).user] # NoFs
  /\ session' = [session EXCEPT ![s].fs = cache[Access(s).user], ![s].at = "serving"]
  /\ UNCHANGED <<heap, cache, cacheLock, loads>>

\* Mutant of MissCache: the mutex covers the lookup only.
MissCacheUnlocked(s) ==
  /\ session[s].at = "loadFs"
  /\ cacheLock = NoOne
  /\ cache[Access(s).user] = NoFs
  /\ Goto(s, IF Access(s).fs = "keycloak" THEN "checkPasswd" ELSE "load")
  /\ UNCHANGED <<heap, cache, cacheLock, loads>>

MissCache(s) ==
  /\ session[s].at = "loadFs"
  /\ cacheLock = NoOne
  /\ cache[Access(s).user] = NoFs
  /\ cacheLock' = s
  /\ Goto(s, IF Access(s).fs = "keycloak" THEN "checkPasswd" ELSE "load")
  /\ UNCHANGED <<heap, cache, loads>>

\* Mutant of LoadFails: the early return forgets the mutex.
LoadFailsLocked(s) ==
  /\ session[s].at \in {"load", "checkPasswd"}
  /\ Goto(s, "refused")
  /\ UNCHANGED <<heap, cache, cacheLock, loads>>

\* The backend's error: a bad parameter, no connection, a failed login.
LoadFails(s) ==
  /\ session[s].at \in {"load", "checkPasswd"}
  /\ Goto(s, "refused")
  /\ cacheLock' = NoOne
  /\ UNCHANGED <<heap, cache, loads>>

\* A new file system, as the backend and fs.LoadFs make it from the access.
NewFs(s, dirUser) ==
  [id |-> loads, user |-> Access(s).user, base |-> Access(s).base, dirUser |-> dirUser,
   readOnly |-> Access(s).readOnly, shared |-> Access(s).shared]

LoadOs(s) ==
  /\ session[s].at = "load"
  /\ loads' = loads + 1
  /\ session' = [session EXCEPT ![s].fs = NewFs(s, Nobody), ![s].at = "store"]
  /\ UNCHANGED <<heap, cache, cacheLock>>

\* The login at the keycloak server, with the user and the password that the
\* entry holds at that moment.
CheckPasswd(s) ==
  /\ session[s].at = "checkPasswd"
  /\ Access(s).user \in Users
  /\ Realm[Access(s).user] = Access(s).pass
  /\ Goto(s, "joinPath")
  /\ UNCHANGED <<heap, cache, cacheLock, loads>>

\* path.Join(basePath, access.User), read once more.
LoadKeycloak(s) ==
  /\ session[s].at = "joinPath"
  /\ loads' = loads + 1
  /\ session' = [session EXCEPT ![s].fs = NewFs(s, Access(s).user), ![s].at = "store"]
  /\ UNCHANGED <<heap, cache, cacheLock>>

\* Mutant of StoreFs: every file system is kept.
StoreEveryFs(s) ==
  /\ session[s].at = "store"
  /\ cache' = [cache EXCEPT ![Access(s).user] = session[s].fs]
  /\ cacheLock' = NoOne
  /\ Goto(s, "serving")
  /\ UNCHANGED <<heap, loads>>

\* Mutant of StoreFs: it is kept for the user who logged in.
StoreFsByLogin(s) ==
  /\ session[s].at = "store"
  /\ cache' = IF Access(s).shared THEN [cache EXCEPT ![session[s].user] = session[s].fs]
                                  ELSE cache
  /\ cacheLock' = NoOne
  /\ Goto(s, "serving")
  /\ UNCHANGED <<heap, loads>>

StoreFs(s) ==
  /\ session[s].at = "store"
  /\ cache' = IF Access(s).shared THEN [cache EXCEPT ![Access(s).user] = session[s].fs]
                                  ELSE cache
  /\ cacheLock' = NoOne
  /\ Goto(s, "serving")
  /\ UNCHANGED <<heap, loads>>

-----------------------------------------------------------------------------
Step(s) ==
  \/ AskWebhook(s) \/ WebhookFails(s) \/ WebhookAnswers(s)
  \/ GetAccessFails(s) \/ GetAccess(s) \/ GetKeycloakAccess(s) \/ StorePass(s)
  \/ UseCached(s) \/ MissCache(s)
  \/ LoadFails(s) \/ LoadOs(s) \/ CheckPasswd(s) \/ LoadKeycloak(s)
  \/ StoreFs(s)

Next ==
  \/ Reload
  \/ \E s \in Sessions : AuthUser(s) \/ Step(s)

Spec == Init /\ [][Next]_vars

\* The goroutine of a session runs, the webhook and the backends answer or
\* fail (they have timeouts, or the operating system has), and the mutex is
\* granted to whoever waits for it.
Fairness == \A s \in Sessions : SF_vars(Step(s))

FairSpec == Spec /\ Fairness

-----------------------------------------------------------------------------
(* Correctness.                                                            *)

Serving(s) == session[s].at = "serving"
Loaded(s) == session[s].at \in {"store", "serving"}

\* However the logins of a user interleave, and however often the
\* configuration is reloaded, the sessions that got a file system through
\* entries marked shared use the same one (server.go:191-204), unless a
\* keycloak entry is shared, which has no user of its own to be cached for.
SharedLoadedOnce ==
  \A s, t \in Sessions :
    /\ Serving(s) /\ Serving(t)
    /\ Access(s).user = Access(t).user
    /\ Access(s).shared /\ Access(t).shared
    => session[s].fs.id = session[t].fs.id

\* A file system loaded for an entry that is not marked shared has one
\* session (server.go:201).
PrivateFsHasOneSession ==
  \A s, t \in Sessions :
    Serving(s) /\ Serving(t) /\ s # t /\ session[s].fs.id = session[t].fs.id =>
      session[s].fs.shared

\* The access of s is his own answer, or an entry that no login writes to.
Fixed(s) == session[s].gen = 0 \/ Access(s).fs # "keycloak"

\* fs has every parameter of access a.
LoadedFrom(fs, a) ==
  /\ fs.user = a.user /\ fs.base = a.base
  /\ fs.readOnly = a.readOnly /\ fs.shared = a.shared
  /\ fs.dirUser = IF a.fs = "keycloak" THEN a.user ELSE Nobody

\* An entry of the configuration serves who has its user and its password, and
\* what a session is served was loaded from the session's own access, with every
\* parameter of it, or is what the cache has for the user of that access, and
\* was loaded for that user (server.go:187-223), whatever was reloaded or
\* answered meanwhile.  The user of an access is the one it names: the webhook
\* may name another than it was asked about.  What the cache has may be older
\* than the access, and have other parameters (ReadOnlyBlocksWrites).  Not for
\* keycloak entries of the configuration, whose user is whoever wrote it last,
\* nor where one of them is shared, which could leave a file system in the
\* cache that was loaded for another user.
ServedOwnAccess ==
  \A s \in Sessions : Serving(s) /\ Fixed(s) =>
    /\ session[s].gen # 0 =>
         Access(s).user = session[s].user /\ Access(s).pass = session[s].pass
    /\ session[s].fs.user = Access(s).user
    /\ \/ LoadedFrom(session[s].fs, Access(s))
       \/ session[s].fs = cache[Access(s).user]

\* Sessions point to entries that exist, and are done with the stores into a
\* keycloak entry when they load.
PointerInv ==
  \A s \in Sessions :
    /\ session[s].gen # 0 =>
         /\ session[s].gen \in 1 .. Len(heap)
         /\ session[s].entry \in DOMAIN heap[session[s].gen].accesses
    /\ session[s].at = "storePass" => session[s].gen # 0 /\ Access(s).fs = "keycloak"

\* What is loaded has a number of its own, is shared if its access is, and
\* only shared file systems are kept.
LoadedInv ==
  /\ \A s \in Sessions : Loaded(s) => session[s].fs # NoFs /\ session[s].fs.id < loads
  /\ \A s \in Sessions : session[s].at = "store" => session[s].fs.shared = Access(s).shared
  /\ \A u \in Names : cache[u] # NoFs => cache[u].shared /\ cache[u].id < loads

\* A file system that is not shared is in one place.
PrivateInv ==
  \A s \in Sessions : Loaded(s) /\ ~session[s].fs.shared =>
    /\ \A t \in Sessions : Loaded(t) /\ session[t].fs.id = session[s].fs.id => t = s
    /\ \A u \in Names : cache[u] # NoFs => cache[u].id # session[s].fs.id

\* Who is served through a shared entry has what the cache has, and who loads
\* for one will find its place in the cache empty.
CacheInv ==
  \A s \in Sessions : Access(s).shared =>
    /\ Serving(s) => session[s].fs = cache[Access(s).user]
    /\ session[s].at \in Holding => cache[Access(s).user] = NoFs

\* A session has no entry before GetAccess finds one; from then on a fixed one
\* is the one of its user and password.  What it loads comes from its access, or
\* from the cache, which has for a user what was loaded for him.
OwnInv ==
  /\ \A s \in Sessions :
       /\ session[s].at \in {"idle", "webhook", "asked", "local"} => session[s].gen = 0
       /\ session[s].at \in Holding \cup {"loadFs", "serving"} /\ Fixed(s) =>
            /\ session[s].gen # 0 =>
                 Access(s).user = session[s].user /\ Access(s).pass = session[s].pass
            /\ session[s].at = "load" => Access(s).fs # "keycloak"
            /\ session[s].at \in {"checkPasswd", "joinPath"} => Access(s).fs = "keycloak"
       /\ Loaded(s) /\ Fixed(s) =>
            \/ LoadedFrom(session[s].fs, Access(s))
            \/ Serving(s) /\ session[s].fs = cache[Access(s).user]
  /\ \A u \in Names : cache[u] # NoFs => cache[u].user = u

\* What a session has loaded and not stored yet, nobody else has.
FreshInv ==
  \A s \in Sessions : session[s].at = "store" =>
    /\ \A t \in Sessions \ {s} : Loaded(t) => session[t].fs.id # session[s].fs.id
    /\ \A u \in Names : cache[u] # NoFs => cache[u].id # session[s].fs.id

\* What SharedLoadedOnce needs of a content.
KeycloakNotShared(content) ==
  \A i \in DOMAIN content.accesses :
    content.accesses[i].shared => content.accesses[i].fs # "keycloak"

\* The inductive invariants behind the theorems of AccessProofs.
IInv == TypeOK /\ PointerInv /\ LoadedInv /\ PrivateInv
SharedInv == CacheInv /\ \A g \in 1 .. Len(heap) : KeycloakNotShared(heap[g])

\* The file system of each session that is served one.
Served == [s \in Sessions |-> IF Serving(s) THEN session[s].fs ELSE NoFs]

Registry == INSTANCE FsRegistry WITH
  Clients <- Sessions, Owners <- Names, kept <- cache, served <- Served

\* Logins, each of many steps, concurrent, and under reloads, hand out file
\* systems as if each did so at one moment: a session joins what is kept, or
\* gets one of its own, and nothing that is kept is replaced (server.go:187-206).
\* Not where a keycloak entry is shared, whose user a login may change between
\* the lookup and the store.
KeepsRegistry == Registry!Spec

\* Every login ends: a backend that answers, or fails, lets go of the cache.
LoginsEnd ==
  \A s \in Sessions :
    session[s].at # "idle" ~> session[s].at \in {"serving", "refused"}

\* fs/README.md:7, of read_only: "This blocks any writing call to the
\* underlying file system."
ReadOnlyBlocksWrites ==
  \A s \in Sessions : Serving(s) /\ Access(s).readOnly => session[s].fs.readOnly
=============================================================================
