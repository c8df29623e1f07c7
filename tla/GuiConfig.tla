------------------------------- MODULE GuiConfig -------------------------------
(***************************************************************************)
(* The users of the Windows program: its list of them, the file it saves   *)
(* them to, and the start, which saves, and then loads the file with       *)
(* module Config (the "local" build), hashing what it holds.  The window   *)
(* never reads the file again: what start hashed there stays plain in the  *)
(* list, and is written back by the next save.  The process may be killed  *)
(* between any two steps and started again.                                *)
(*                                                                         *)
(* A user is an entry of Config, his directory left out.  The program is   *)
(* the only editor of its file; "edits" holds what it wrote last, and a    *)
(* file that is missing is one that does not decode.  The boxes that only  *)
(* inform, and the mutex, are in module Gui.                               *)
(* Files are the contents that earlier runs of the program have left.      *)
(***************************************************************************)
EXTENDS Config

CONSTANTS
  Typed,     \* the passwords typed into the form, without the empty one
  MaxUsers   \* bound: the length of the list

VARIABLES
  step,      \* "off" without a process, "loop", or what save and start do
  starting,  \* the save is that of a start
  running,   \* a.running
  users,     \* a.users
  hash,      \* a.content.HashPlaintextPasswords
  selected,  \* the line of the list that is selected, or 0
  asked,     \* the line the box asks about, or 0, and its user
  dirty      \* the list or the option was changed since it was read or saved

configVars == <<build, file, edits, raced, heap, loader, result, loads, login>>
formVars == <<users, hash, selected, asked, dirty>>
allVars == <<configVars, step, starting, running, formVars>>

NoBox == [line |-> 0, user |-> Nobody]
Names(accesses) == {accesses[i].user : i \in DOMAIN accesses}
NoNameTwice(accesses) ==
  \A i, j \in DOMAIN accesses : accesses[i].user = accesses[j].user => i = j

\* What the program saved: users, each with a name of his own.
ASSUME WindowAssumption ==
  /\ Typed \subseteq Passwords /\ MaxUsers \in Nat
  /\ \A f \in Files : /\ f.accesses # <<>> /\ NoNameTwice(f.accesses)
                     /\ Len(f.accesses) <= MaxUsers

GuiTypeOK ==
  /\ step \in {"off", "loop", "save", "write", "load", "listen"}
  /\ starting \in BOOLEAN /\ running \in BOOLEAN /\ hash \in BOOLEAN /\ dirty \in BOOLEAN
  /\ users \in Seq(Entry) /\ Len(users) <= MaxUsers
  /\ selected \in 0 .. Len(users)
  /\ asked \in [line : 0 .. Len(users), user : Users \cup {Nobody}]
  /\ file = Broken \/ file.accesses # <<>>

NoProcess ==
  /\ step' = "off" /\ starting' = FALSE /\ running' = FALSE
  /\ users' = <<>> /\ hash' = FALSE /\ selected' = 0 /\ asked' = NoBox /\ dirty' = FALSE

GuiInit ==
  /\ build = "local"
  /\ file \in Files \cup {Broken}
  /\ edits = <<file>> /\ raced = FALSE
  /\ heap = <<>> /\ loader = Idle /\ result = "none" /\ loads = 0
  /\ login = [l \in Logins |-> NotAsked]
  /\ step = "off" /\ starting = FALSE /\ running = FALSE
  /\ users = <<>> /\ hash = FALSE /\ selected = 0 /\ asked = NoBox /\ dirty = FALSE

\* A configuration that was loaded is given up.
GiveUp ==
  /\ heap' = <<>> /\ loader' = Idle /\ loads' = 0
  /\ UNCHANGED <<build, file, edits, raced, login>>

Kill ==
  /\ step # "off"
  /\ NoProcess
  /\ GiveUp /\ result' = "none"

-----------------------------------------------------------------------------
(* The list of users.                                                      *)

\* refreshUsers selects the first line.
Refreshed(list) == IF list = <<>> THEN 0 ELSE 1

\* main: a file that cannot be decoded gives the defaults, without users.
Boot ==
  /\ step = "off"
  /\ step' = "loop"
  /\ users' = IF file = Broken THEN <<>> ELSE file.accesses
  /\ hash' = (file # Broken /\ file.hash)
  /\ selected' = Refreshed(users')
  /\ UNCHANGED <<configVars, starting, running, asked, dirty>>

\* Mutant of AtWindow: a box without an owner leaves the window enabled.
AtAnyWindow == step = "loop"

\* A handler of the window, which a box disables.
AtWindow == step = "loop" /\ asked = NoBox

SelectUser ==
  /\ AtWindow
  /\ \E i \in DOMAIN users : selected' = i
  /\ UNCHANGED <<configVars, step, starting, running, users, hash, asked, dirty>>

NewUser ==
  /\ AtWindow
  /\ selected' = 0
  /\ UNCHANGED <<configVars, step, starting, running, users, hash, asked, dirty>>

\* The password field: empty, which keeps the one of the selected user, or typed.
Given == {Plain(p) : p \in Typed} \cup (IF selected = 0 THEN {} ELSE {users[selected].pass})

Taken(name) == \E i \in DOMAIN users : i # selected /\ users[i].user = name

SaveUser ==
  /\ AtWindow
  /\ \E name \in Users, pass \in Given :
       /\ ~Taken(name)
       /\ LET u == [user |-> name, pass |-> pass]
          IN  users' = IF selected # 0 THEN [users EXCEPT ![selected] = u]
                                       ELSE Append(users, u)
  /\ Len(users') <= MaxUsers
  /\ selected' = Refreshed(users')
  /\ dirty' = TRUE
  /\ UNCHANGED <<configVars, step, starting, running, hash, asked>>

AskDelete ==
  /\ AtWindow
  /\ selected # 0
  /\ asked' = [line |-> selected, user |-> users[selected].user]
  /\ UNCHANGED <<configVars, step, starting, running, users, hash, selected, dirty>>

AnswerDelete ==
  /\ step = "loop" /\ asked # NoBox
  /\ asked' = NoBox
  /\ \/ UNCHANGED <<users, selected, dirty>>
     \/ /\ users' = RemoveAt(users, asked.line)
        /\ selected' = 0
        /\ dirty' = TRUE
  /\ UNCHANGED <<configVars, step, starting, running, hash>>

\* The dialog of the advanced settings is accepted.
AcceptDialog ==
  /\ AtWindow
  /\ \E h \in BOOLEAN : hash' = h
  /\ dirty' = TRUE
  /\ UNCHANGED <<configVars, step, starting, running, users, selected, asked>>

-----------------------------------------------------------------------------
(* saveConfig, for the button and for start.                               *)

PressSave ==
  /\ AtWindow
  /\ step' = "save" /\ starting' = FALSE
  /\ UNCHANGED <<configVars, running, formVars>>

\* From the window, or from the tray under a box.
PressStart ==
  /\ step = "loop"
  /\ ~running
  /\ step' = "save" /\ starting' = TRUE
  /\ UNCHANGED <<configVars, running, formVars>>

\* Mutant of Refused: a list without users is not looked for.
RefusedNever == FALSE

Refused == users = <<>>

\* Mutant of SaveFails: start does not ask how its save ended.
SaveFailsUnseen ==
  /\ step = "save"
  /\ step' = IF starting THEN "load" ELSE "loop"
  /\ result' = "none"
  /\ UNCHANGED <<build, file, edits, raced, heap, loader, loads, login, starting, running,
                 formVars>>

\* A field is refused, or the file cannot be opened.
SaveFails ==
  /\ step = "save"
  /\ step' = "loop"
  /\ UNCHANGED <<configVars, starting, running, formVars>>

\* WriteFile empties the file,
BeginSave ==
  /\ step = "save"
  /\ ~Refused
  /\ file' = Broken
  /\ step' = "write"
  /\ UNCHANGED <<build, edits, raced, heap, loader, result, loads, login, starting, running,
                 formVars>>

\* Mutant of Collected: the accesses that were loaded are written back.
CollectedStale == IF edits[1] = Broken THEN users ELSE edits[1].accesses

\* collectForm sets a.content.Accesses to a.users.
Collected == users

\* and writes, or fails to.
EndSave ==
  /\ step = "write"
  /\ \/ /\ file' = [hash |-> hash, accesses |-> Collected]
        /\ edits' = <<file'>>
        /\ dirty' = FALSE
        /\ step' = IF starting THEN "load" ELSE "loop"
        /\ result' = "none"
     \/ /\ step' = "loop"
        /\ UNCHANGED <<file, edits, dirty, result>>
  /\ UNCHANGED <<build, raced, heap, loader, loads, login, starting, running, users, hash,
                 selected, asked>>

-----------------------------------------------------------------------------
(* start, after the save, and stop.                                        *)

\* config.NewConfig.
LoadConfig ==
  /\ step = "load"
  /\ \/ result = "none" /\ Load
     \/ SkipEntry \/ HashFails \/ HashEntry \/ StoreEntry \/ HashingEnds
     \/ BeginWrite \/ EndWrite
  /\ UNCHANGED <<step, starting, running, formVars>>

LoadEnds ==
  /\ step = "load"
  /\ ~Loading /\ result # "none"
  /\ step' = IF result = "ok" THEN "listen" ELSE "loop"
  /\ IF result = "ok" THEN UNCHANGED configVars ELSE GiveUp /\ UNCHANGED result
  /\ UNCHANGED <<starting, running, formVars>>

Listen ==
  /\ step = "listen"
  /\ step' = "loop"
  /\ running' = TRUE
  /\ UNCHANGED <<configVars, starting, formVars>>

\* The driver is refused, or the address is taken.
ListenFails ==
  /\ step = "listen"
  /\ step' = "loop"
  /\ GiveUp /\ UNCHANGED result
  /\ UNCHANGED <<starting, running, formVars>>

\* stop, or a server that failed.
StopServer ==
  /\ step = "loop"
  /\ running
  /\ running' = FALSE
  /\ GiveUp /\ UNCHANGED result
  /\ UNCHANGED <<step, starting, formVars>>

GuiNext ==
  \/ Kill \/ Boot
  \/ SelectUser \/ NewUser \/ SaveUser \/ AskDelete \/ AnswerDelete \/ AcceptDialog
  \/ PressSave \/ PressStart \/ SaveFails \/ BeginSave \/ EndSave
  \/ LoadConfig \/ LoadEnds \/ Listen \/ ListenFails \/ StopServer

GuiSpec == GuiInit /\ [][GuiNext]_allVars

-----------------------------------------------------------------------------
(* Correctness.                                                            *)

\* A server starts with exactly the users and passwords of the window: the
\* save, the load and the hashing between them change nothing of it, and no
\* failure of one of them is taken for a success (main_windows.go:410-437).
StartServesTheWindow ==
  step = "listen" => /\ Same(Content.accesses, users)
                     /\ NoNameTwice(Content.accesses)

\* While nothing was changed since the list was read or saved, the file lets
\* in whom the list does, and has its option, though the passwords may be
\* hashed in the one and plain in the other, and though the process was
\* killed; or it is broken (main_windows.go:116, 400).
WindowMatchesFile ==
  step = "loop" /\ ~dirty /\ file # Broken =>
    /\ Same(file.accesses, users) /\ Names(file.accesses) = Names(users)
    /\ file.hash = hash

\* A user is taken from the list only by the box that named him, though the
\* index was read before it opened, and the tray worked under it
\* (main_windows.go:549-556).
DeletesWhatWasConfirmed ==
  [][asked # NoBox /\ users' # users /\ step' # "off" =>
       /\ Names(users') = Names(users) \ {asked.user}
       /\ Len(users') = Len(users) - 1]_allVars

\* Behind these: no user is in the list twice, the box names the user of its
\* line,
ListInv ==
  /\ NoNameTwice(users) /\ Names(users) \subseteq Users
  /\ asked # NoBox => asked.line \in DOMAIN users /\ users[asked.line].user = asked.user
  /\ step = "off" => users = <<>> /\ asked = NoBox

\* the file is what the list was when it was saved, or hashes of it,
FileInv ==
  /\ file # Broken =>
       /\ file \in FileType /\ file.accesses # <<>> /\ Len(file.accesses) <= MaxUsers
       /\ NoNameTwice(file.accesses) /\ Names(file.accesses) \subseteq Users
  /\ step # "off" /\ ~dirty /\ file # Broken =>
       Follows(file.accesses, users) /\ file.hash = hash
  /\ step \in {"write", "load"} => users # <<>>

\* (the loader of the local variant does not read the file a second time)
LoaderType == [at : {"idle", "hash", "store", "write", "writing"}, next : Nat \ {0},
               text : {Broken}, save : BOOLEAN]

\* and what start has loaded follows the list, for a process that has one
\* server at most.
StartInv ==
  /\ build = "local" /\ heap \in Seq(ContentType)
  /\ loader \in LoaderType
  /\ heap # <<>> => running \/ step \in {"load", "listen"}
  /\ starting /\ step \in {"save", "write"} => ~running
  /\ step \in {"load", "listen"} =>
       /\ ~dirty
       /\ heap # <<>> => Follows(Content.accesses, users)
       /\ result = "ok" => heap # <<>>
  /\ step = "listen" => result = "ok"
  /\ Loading => step = "load" /\ heap # <<>> /\ hash
  /\ loader.at = "store" => /\ loader.next \in DOMAIN Content.accesses
                            /\ ~Exempt(Content.accesses[loader.next])

\* The accounts of a list of entries, of the file and of the server, if there
\* are any.
Table(accesses) == {a \in Users \X Passwords : LetsIn(accesses, a[1], a[2])}
FileTable == IF file = Broken THEN {} ELSE {Table(file.accesses)}
ServerTable == IF running THEN {Table(Content.accesses)} ELSE {}

Promise == INSTANCE Accounts WITH
  open <- step # "off", window <- Table(users), file <- FileTable, server <- ServerTable

\* The window, the file and the server have their accounts only from each
\* other, as if saves and starts each took one moment: neither the hashing,
\* nor a failure or the death of the process between two steps, puts an
\* account anywhere that the window did not show, and a server starts with
\* what both window and file have (main_windows.go:116, 391-437).
KeepsAccounts == Promise!Spec

\* What that takes besides GuiInv: the file is broken while it is written, and
\* otherwise a start that has not failed has it, and no other server.
WriteInv ==
  /\ step = "write" \/ loader.at = "writing" => file = Broken
  /\ Loading => result = "none"
  /\ step = "load" => file # Broken \/ loader.at = "writing" \/ result = "failed"
  /\ step = "listen" => file # Broken
  /\ step \in {"load", "listen"} => ~running

\* The inductive invariant behind the theorems of GuiConfigProofs.
GuiInv == GuiTypeOK /\ ListInv /\ FileInv /\ StartInv
=============================================================================
