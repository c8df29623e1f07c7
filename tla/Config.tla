------------------------------- MODULE Config -------------------------------
(***************************************************************************)
(* The configuration file: Load and HashPlaintextPasswords, which publish  *)
(* what the file says and then overwrite its plain passwords by hashes, in *)
(* memory and on the disk, while sessions log in with GetAccess and while  *)
(* somebody may edit the file or the process may die.                      *)
(*                                                                         *)
(* Both variants of the code: build "full" (config/config.go), which reads *)
(* the file again and sets the hashes in it, and build "local"             *)
(* (config/config_local.go), which writes the content in memory back.      *)
(*                                                                         *)
(* A stored password is plain text, a bcrypt hash or another crypt hash,   *)
(* of a password.  Keycloak entries and what GetAccess returns are the     *)
(* subject of module Access.                                               *)
(***************************************************************************)
EXTENDS Naturals, Sequences, SequencesExt

CONSTANTS
  Builds,       \* the variants that are compared: "full", "local"
  Logins,       \* concurrent calls of GetAccess, each made once
  Users,        \* the names in the file, Anonymous among them
  Anonymous,
  Passwords,    \* what clients type, Star among them
  Star,         \* the text "*"
  Unknown,      \* what no client types, a hash as text for one
  Nobody,       \* the user of an entry without one
  Files,        \* the contents an editor gives the file
  Broken,       \* the content of a file that does not decode
  MaxEdits,     \* bound: how often the file is written by an editor
  MaxLoads      \* bound: how often it is loaded

Stored == [kind : {"plain", "bcrypt", "crypt"}, of : Passwords \cup {Unknown}]

Entry == [user : Users \cup {Nobody}, pass : Stored]

FileType == [hash : BOOLEAN, accesses : Seq(Entry)]

ContentType == [accesses : Seq(Entry), loaded : FileType]

ASSUME FilesAssumption ==
  /\ Files \subseteq FileType
  /\ Broken \notin FileType
  /\ \A f, g \in Files : Len(f.accesses) <= Len(g.accesses) + 1
  /\ \A f \in Files : \A i \in DOMAIN f.accesses : f.accesses[i].user \in Users

ASSUME NamesAssumption ==
  /\ Anonymous \in Users /\ Nobody \notin Users
  /\ Star \in Passwords /\ Unknown \notin Passwords

ASSUME BoundsAssumption == MaxEdits \in Nat /\ MaxLoads \in Nat

VARIABLES
  build,     \* the variant that runs
  file,      \* the file on the disk, or Broken
  edits,     \* what editors wrote, the last one last
  raced,     \* the last edit fell into a load
  heap,      \* the contents loaded by this process; the last is c.Content
  loader,    \* where Load is: its step, next entry, text and save flag
  result,    \* how the last Load ended, "none" if it runs or the file changed since
  loads,
  login      \* where each call of GetAccess is

vars == <<build, file, edits, raced, heap, loader, result, loads, login>>

Plain(p) == [kind |-> "plain", of |-> p]

\* The prefixes each variant takes for a hash.
Recognised(stored) ==
  stored.kind \in {"bcrypt"} \cup (IF build = "full" THEN {"crypt"} ELSE {})

Wildcard(entry) == entry.user = Anonymous /\ entry.pass = Plain(Star)

\* An entry lets in who types p, when nothing else is going on.
Accepts(entry, p) ==
  \/ Recognised(entry.pass) /\ entry.pass.of = p
  \/ ~Recognised(entry.pass) /\ (entry.pass = Plain(p) \/ Wildcard(entry))

LetsIn(accesses, u, p) == \E i \in DOMAIN accesses : accesses[i].user = u /\ Accepts(accesses[i], p)

Bcrypt(stored) ==
  [kind |-> "bcrypt", of |-> IF stored.kind = "plain" THEN stored.of ELSE Unknown]

Content == Last(heap)
Idle == [at |-> "idle", next |-> 1, text |-> Broken, save |-> FALSE]
Loading == loader.at # "idle"
NotAsked == [at |-> "idle", user |-> Nobody, pass |-> Unknown, gen |-> 0, next |-> 1,
             overlap |-> FALSE]

TypeOK ==
  /\ build \in Builds
  /\ file \in FileType \cup {Broken}
  /\ file # Broken /\ ~raced => \A i \in DOMAIN file.accesses : file.accesses[i].user \in Users
  /\ edits \in Seq(Files) /\ Len(edits) \in 1 .. MaxEdits + 1
  /\ raced \in BOOLEAN
  /\ heap \in Seq(ContentType)
  /\ loader \in [at : {"idle", "read", "hash", "store", "write", "writing"}, next : Nat \ {0},
                 text : FileType \cup {Broken}, save : BOOLEAN]
  /\ result \in {"none", "ok", "failed"}
  /\ loads \in 0 .. MaxLoads
  /\ login \in [Logins -> [at : {"idle", "scan", "hash", "plain", "accepted", "refused"},
                           user : Users \cup {Nobody}, pass : Passwords \cup {Unknown},
                           gen : 0 .. Len(heap), next : Nat \ {0}, overlap : BOOLEAN]]

Init ==
  /\ build \in Builds
  /\ file \in Files
  /\ edits = <<file>>
  /\ raced = FALSE
  /\ heap = <<>>
  /\ loader = Idle
  /\ result = "none"
  /\ loads = 0
  /\ login = [l \in Logins |-> NotAsked]

\* An editor replaces the file.
Edit ==
  /\ Len(edits) <= MaxEdits
  /\ loader.at # "writing"
  /\ \E f \in Files : file' = f /\ edits' = Append(edits, f)
  /\ raced' = Loading
  /\ result' = "none"
  /\ UNCHANGED <<build, heap, loader, loads, login>>

\* The process dies; what it had in memory is gone.
Crash ==
  /\ heap # <<>>
  /\ heap' = <<>>
  /\ loader' = Idle
  /\ result' = "none"
  /\ login' = [l \in Logins |-> NotAsked]
  /\ UNCHANGED <<build, file, edits, raced, loads>>

-----------------------------------------------------------------------------
(* Load.                                                                   *)

\* Load returns no error.
Succeed ==
  /\ loader' = Idle
  /\ result' = "ok"
  /\ UNCHANGED heap

\* Load returns an error after it published the content.  The first time, that
\* ends the program; a reload is only logged, and the content stays.
Fail ==
  /\ loader' = Idle
  /\ result' = "failed"
  /\ heap' = IF Len(heap) = 1 THEN <<>> ELSE heap

LoadFails ==
  /\ ~Loading /\ loads < MaxLoads
  /\ file = Broken
  /\ loads' = loads + 1
  /\ result' = "failed"
  /\ UNCHANGED <<build, file, edits, raced, heap, loader, login>>

\* The file is decoded, and the content published before anything else.
Load ==
  /\ ~Loading /\ loads < MaxLoads
  /\ file # Broken
  /\ loads' = loads + 1
  /\ heap' = Append(heap, [accesses |-> file.accesses, loaded |-> file])
  /\ IF file.hash
       THEN /\ loader' = [Idle EXCEPT !.at = IF build = "full" THEN "read" ELSE "hash"]
            /\ result' = "none"
       ELSE loader' = Idle /\ result' = "ok"
  /\ UNCHANGED <<build, file, edits, raced, login>>

\* Only the full variant reads the file again.
ReadFile ==
  /\ loader.at = "read"
  /\ \/ /\ loader' = [loader EXCEPT !.at = "hash", !.text = file]
        /\ UNCHANGED <<heap, result>>
     \/ Fail
  /\ UNCHANGED <<build, file, edits, raced, loads, login>>

\* Mutant of Exempt: anonymous is hashed like everybody.
ExemptHashed(entry) == Recognised(entry.pass)

\* The entries whose password stays as it is.
Exempt(entry) == Wildcard(entry) \/ Recognised(entry.pass)

Hashing == loader.at = "hash" /\ loader.next <= Len(Content.accesses)

SkipEntry ==
  /\ Hashing
  /\ Exempt(Content.accesses[loader.next])
  /\ loader' = [loader EXCEPT !.next = @ + 1]
  /\ UNCHANGED <<build, file, edits, raced, heap, result, loads, login>>

\* The hash function fails; the entries before are hashed in memory only.
HashFails ==
  /\ Hashing
  /\ ~Exempt(Content.accesses[loader.next])
  /\ Fail
  /\ UNCHANGED <<build, file, edits, raced, loads, login>>

\* The hash is there, and the store into the entry under way.
HashEntry ==
  /\ Hashing
  /\ ~Exempt(Content.accesses[loader.next])
  /\ loader' = [loader EXCEPT !.at = "store"]
  /\ login' = [l \in Logins |-> [login[l] EXCEPT !.overlap = @ \/ login[l].gen = Len(heap)]]
  /\ UNCHANGED <<build, file, edits, raced, heap, result, loads>>

\* Mutant of SetPass: the path counts from one.
SetPassNext(accesses, i, stored) ==
  IF i + 1 <= Len(accesses) THEN [accesses EXCEPT ![i + 1].pass = stored]
                            ELSE Append(accesses, [user |-> Nobody, pass |-> stored])

\* sjson.Set of accesses.i.pass, which appends an entry if there is none.
SetPass(accesses, i, stored) ==
  IF i <= Len(accesses) THEN [accesses EXCEPT ![i].pass = stored]
                        ELSE Append(accesses, [user |-> Nobody, pass |-> stored])

\* Mutant of Saved: the text in memory is enough.
SavedNever == FALSE

\* save = true
Saved == TRUE

StoreEntry ==
  /\ loader.at = "store"
  /\ LET i == loader.next
         hashed == Bcrypt(Content.accesses[i].pass)
         text == IF build = "full" THEN [loader.text EXCEPT !.accesses = SetPass(@, i, hashed)]
                                   ELSE loader.text
     IN  /\ heap' = [heap EXCEPT ![Len(heap)].accesses[i].pass = hashed]
         /\ loader' = [loader EXCEPT !.at = "hash", !.next = i + 1, !.save = Saved, !.text = text]
  /\ UNCHANGED <<build, file, edits, raced, result, loads, login>>

HashingEnds ==
  /\ loader.at = "hash"
  /\ loader.next > Len(Content.accesses)
  /\ IF loader.save
       THEN loader' = [loader EXCEPT !.at = "write"] /\ UNCHANGED <<heap, result>>
       ELSE Succeed
  /\ UNCHANGED <<build, file, edits, raced, loads, login>>

\* WriteFile opens the file, which empties it, or cannot.
BeginWrite ==
  /\ loader.at = "write"
  /\ \/ /\ file' = Broken
        /\ loader' = [loader EXCEPT !.at = "writing"]
        /\ UNCHANGED <<heap, result>>
     \/ /\ Fail
        /\ UNCHANGED file
  /\ UNCHANGED <<build, edits, raced, loads, login>>

\* And writes: the text with the hashes set, or the content in memory.
EndWrite ==
  /\ loader.at = "writing"
  /\ \/ /\ file' = IF build = "full"
                     THEN loader.text
                     ELSE [hash |-> TRUE, accesses |-> Content.accesses]
        /\ Succeed
     \/ /\ Fail
        /\ UNCHANGED file
  /\ UNCHANGED <<build, edits, raced, loads, login>>

-----------------------------------------------------------------------------
(* GetAccess.  An entry's password is read twice, and may change between,  *)
(* or be half stored: a string is two words.                               *)

Readings(gen, i) ==
  {heap[gen].accesses[i].pass} \cup
  (IF loader.at = "store" /\ gen = Len(heap) /\ i = loader.next
     THEN {Bcrypt(heap[gen].accesses[i].pass), Plain(Unknown), [kind |-> "bcrypt", of |-> Unknown]}
     ELSE {})

Goto(l, where) == login' = [login EXCEPT ![l].at = where]
NextEntry(l) == login' = [login EXCEPT ![l].at = "scan", ![l].next = @ + 1]

\* Calls come when a content was loaded without error, so that there is a server.
GetAccess(l) ==
  /\ login[l].at = "idle"
  /\ heap # <<>> /\ (Len(heap) > 1 \/ ~Loading)
  /\ \E u \in Users, p \in Passwords :
       login' = [login EXCEPT ![l] =
         [at |-> "scan", user |-> u, pass |-> p, gen |-> Len(heap), next |-> 1,
          overlap |-> loader.at = "store"]]
  /\ UNCHANGED <<build, file, edits, raced, heap, loader, result, loads>>

Accesses(l) == heap[login[l].gen].accesses
At(l) == Accesses(l)[login[l].next]

Scan(l) ==
  /\ login[l].at = "scan"
  /\ IF login[l].next > Len(Accesses(l))
       THEN Goto(l, "refused")
       ELSE \/ At(l).user # login[l].user /\ NextEntry(l)
            \/ /\ At(l).user = login[l].user
               /\ \E stored \in Readings(login[l].gen, login[l].next) :
                    Goto(l, IF Recognised(stored) THEN "hash" ELSE "plain")
  /\ UNCHANGED <<build, file, edits, raced, heap, loader, result, loads>>

\* Mutant of CompareHash: a mismatch ends the search.
CompareFirstHash(l) ==
  /\ login[l].at = "hash"
  /\ \E stored \in Readings(login[l].gen, login[l].next) :
       Goto(l, IF stored.of = login[l].pass THEN "accepted" ELSE "refused")
  /\ UNCHANGED <<build, file, edits, raced, heap, loader, result, loads>>

\* A hash that does not decode is an error, in the full variant.
CompareHash(l) ==
  /\ login[l].at = "hash"
  /\ \E stored \in Readings(login[l].gen, login[l].next) :
       CASE stored.of = login[l].pass /\ Recognised(stored) -> Goto(l, "accepted")
         [] stored.of = Unknown /\ build = "full" -> Goto(l, "refused")
         [] OTHER -> NextEntry(l)
  /\ UNCHANGED <<build, file, edits, raced, heap, loader, result, loads>>

ComparePlain(l) ==
  /\ login[l].at = "plain"
  /\ \E stored \in Readings(login[l].gen, login[l].next) :
       IF stored = Plain(login[l].pass) \/ Wildcard(At(l))
         THEN Goto(l, "accepted")
         ELSE NextEntry(l)
  /\ UNCHANGED <<build, file, edits, raced, heap, loader, result, loads>>

Next ==
  \/ Edit \/ Crash
  \/ Load \/ LoadFails \/ ReadFile
  \/ SkipEntry \/ HashFails \/ HashEntry \/ StoreEntry \/ HashingEnds \/ BeginWrite \/ EndWrite
  \/ \E l \in Logins : GetAccess(l) \/ Scan(l) \/ CompareHash(l) \/ ComparePlain(l)

Spec == Init /\ [][Next]_vars

-----------------------------------------------------------------------------
(* Correctness.                                                            *)

Same(accesses, others) ==
  \A u \in Users, p \in Passwords : LetsIn(accesses, u, p) <=> LetsIn(others, u, p)

\* An entry at place i accepts only what an editor's entry at i accepted.
NothingNew(accesses) ==
  \A i \in DOMAIN accesses, p \in Passwords : Accepts(accesses[i], p) =>
    \E k \in DOMAIN edits : i \in DOMAIN edits[k].accesses /\ Accepts(edits[k].accesses[i], p)

\* While nobody edits the file during a load, hashing changes for nobody which
\* passwords let him in: neither in memory, at any moment between two stores,
\* nor on the disk, whatever part of it failed or was cut by a crash, and
\* however often it was repeated.  After an edit during a load the file may
\* give one user the password of another, who had his place before; but no
\* entry of a file that can be read accepts a password that no editor ever
\* accepted at its place (config.go:101, 180-184, config_local.go:72).
HashingKeepsPasswords ==
  /\ \A g \in DOMAIN heap : Same(heap[g].accesses, heap[g].loaded.accesses)
  /\ file # Broken /\ ~raced => Same(file.accesses, Last(edits).accesses)
  /\ file # Broken => NothingNew(file.accesses)

\* A call of GetAccess lets in nobody whose password the content it began
\* with did not have for the user, and turns nobody away whose password it
\* has, unless a password was being replaced by its hash during the call
\* (config.go:204, config_local.go:107).
VerdictIsRight ==
  \A l \in Logins : login[l].at \in {"accepted", "refused"} =>
    LET right == LetsIn(heap[login[l].gen].loaded.accesses, login[l].user, login[l].pass)
    IN  /\ login[l].at = "accepted" => right
        /\ login[l].at = "refused" => ~right \/ login[l].overlap

\* After a load that asks for hashes and reports no error, there is no plain
\* password left, in the content or in the file, unless it was edited
\* meanwhile (config.go:160, config_local.go:94).
NothingPlainLeft ==
  result = "ok" /\ heap # <<>> /\ Content.loaded.hash =>
    /\ \A i \in DOMAIN Content.accesses : Exempt(Content.accesses[i])
    /\ file # Broken /\ ~raced => \A i \in DOMAIN file.accesses : Exempt(file.accesses[i])

\* What hashing makes of an entry, if anything, and of all of them.
Hashed(entry) == [entry EXCEPT !.pass = Bcrypt(entry.pass)]
Follows(accesses, before) ==
  /\ Len(accesses) = Len(before)
  /\ \A i \in DOMAIN before : \/ accesses[i] = before[i]
                              \/ ~Exempt(before[i]) /\ accesses[i] = Hashed(before[i])

AllExempt(accesses) == \A i \in DOMAIN accesses : Exempt(accesses[i])

\* Contents, and the file, follow what was decoded and written by an editor.
FollowInv ==
  /\ \A g \in DOMAIN heap : Follows(heap[g].accesses, heap[g].loaded.accesses)
  /\ file # Broken /\ ~raced => Follows(file.accesses, Last(edits).accesses)

\* A load without an edit has the file it began with before it, until it writes.
LoadInv ==
  /\ loader.at = "idle" => loader = Idle
  /\ Loading =>
       /\ heap # <<>>
       /\ file = Broken <=> loader.at = "writing"
       /\ ~raced => /\ Follows(Content.loaded.accesses, Last(edits).accesses)
                    /\ file # Broken => file.accesses = Content.loaded.accesses
       /\ loader.save \/ Content.accesses = Content.loaded.accesses
       /\ Len(heap) = 1 => \A l \in Logins : login[l].gen = 0
       /\ result # "ok"

\* Entries are hashed in order, in the content and in the text alike.
OrderInv ==
  /\ loader.at = "read" => loader.next = 1 /\ ~loader.save /\ build = "full"
  /\ loader.at \in {"hash", "store"} =>
       /\ loader.next <= Len(Content.accesses) + 1
       /\ \A i \in DOMAIN Content.accesses :
            IF i < loader.next THEN Exempt(Content.accesses[i])
                               ELSE Content.accesses[i] = Content.loaded.accesses[i]
  /\ loader.at = "store" => /\ loader.next \in DOMAIN Content.accesses
                            /\ ~Exempt(Content.accesses[loader.next])
  /\ loader.at \in {"write", "writing"} => AllExempt(Content.accesses)
  /\ loader.at \in {"hash", "store", "write", "writing"} /\ build = "full" =>
       /\ loader.text # Broken
       /\ ~raced => loader.text.accesses = Content.accesses

\* The inductive invariant behind the theorems of ConfigProofs.
IInv == TypeOK /\ FollowInv /\ LoadInv /\ OrderInv /\ NothingPlainLeft

\* Each user has one entry, and no entry has a hash that nobody's password fits.
NamesOnce(accesses) ==
  \A i, j \in DOMAIN accesses :
    accesses[i].user \in Users /\ accesses[j].user = accesses[i].user => i = j
NoneUnknown(accesses) == \A i \in DOMAIN accesses : accesses[i].pass.of # Unknown

AllNamesOnce == \A f \in Files : NamesOnce(f.accesses)
AllKnown == \A f \in Files : NoneUnknown(f.accesses)

\* In the full variant a hash that does not decode ends the search, so that a
\* second entry of its user is never looked at.  No editor writes both.
FilesAreClear == "full" \in Builds => AllNamesOnce \/ AllKnown

\* What no editor writes is not there later, even where the hashes of one file
\* went into another that replaced it meanwhile.
Clear(accesses) ==
  /\ AllNamesOnce => NamesOnce(accesses)
  /\ AllKnown => NoneUnknown(accesses)

ClearInv ==
  build = "full" =>
    /\ file # Broken => Clear(file.accesses)
    /\ loader.text # Broken => Clear(loader.text.accesses)
    /\ \A g \in DOMAIN heap : Clear(heap[g].accesses)

\* An entry at place i is an editor's, or has the hash of the password of one.
KnownEntry(entry, i) ==
  \E k \in DOMAIN edits : i \in DOMAIN edits[k].accesses /\
    LET known == edits[k].accesses[i]
    IN  entry = known \/ entry.pass = Bcrypt(known.pass)

\* The entries of a content, of the text and of the file stay at the places an
\* editor gave them, also where hashes of one file went into another.
Known(accesses) ==
  /\ \E f \in Files : Len(accesses) = Len(f.accesses)
  /\ \A i \in DOMAIN accesses : KnownEntry(accesses[i], i)

KnownInv ==
  /\ file # Broken => Known(file.accesses)
  /\ loader.text # Broken => Known(loader.text.accesses)
  /\ \A g \in DOMAIN heap : Known(heap[g].accesses)

\* What a call of GetAccess knows of the entries it has passed.
Passed(accesses, next, u, p) ==
  \A i \in DOMAIN accesses : i < next /\ accesses[i].user = u => ~Accepts(accesses[i], p)

\* A call that overlaps no store has seen the entries as they are.
LoginOf(l) ==
  login[l].at # "idle" =>
    LET at == login[l].at
        u == login[l].user
        p == login[l].pass
    IN  /\ login[l].gen \in DOMAIN heap /\ u \in Users /\ p \in Passwords
        /\ at \in {"hash", "plain"} => login[l].next <= Len(Accesses(l)) /\ At(l).user = u
        /\ at = "accepted" => LetsIn(Accesses(l), u, p)
        /\ ~login[l].overlap =>
             /\ loader.at # "store" \/ login[l].gen # Len(heap)
             /\ at \in {"scan", "hash", "plain"} => Passed(Accesses(l), login[l].next, u, p)
             /\ at = "hash" => Recognised(At(l).pass)
             /\ at = "plain" => ~Recognised(At(l).pass)
             /\ at = "refused" => ~LetsIn(Accesses(l), u, p)

LoginInv == \A l \in Logins : LoginOf(l)
=============================================================================
