----------------------------- MODULE ChannelTree -----------------------------
(***************************************************************************)
(* pkg/server/config.go: the tree of channels in a YAML file, imported     *)
(* into the store channel by channel and exported from it.  A file is the  *)
(* sequence of its channels in the order ensureChannel visits them, each   *)
(* with the index of the channel it is nested in.  Several imports may run *)
(* at once (handleImportChannels of two connections), next to requests     *)
(* that create temp channels and delete any.                               *)
(***************************************************************************)
EXTENDS Integers, FiniteSets, FiniteSetsExt, SequencesExt

CONSTANTS
  Importers,      \* goroutines that call ImportChannelsFromYAML
  Config,         \* the file
  TempNames,      \* names users give to temp channels
  MaxRequests     \* bound on the requests of one behaviour

Root == 0    \* Channel.ParentID of a channel at the top
LobbyName == "Lobby"

ASSUME TreeAssumption ==
  /\ Config \in Seq([name : STRING, up : Nat, valid : BOOLEAN])
  /\ \A i \in DOMAIN Config : Config[i].up < i
  /\ MaxRequests \in Nat

VARIABLES
  rows,       \* table channels: ID -> row
  lastID,     \* sqlite_sequence: the highest ID given out so far
  at,         \* importer -> the entry it is at, 0 when it is not importing
  missing,    \* importer -> the entry was looked up and not found
  ids,        \* importer -> the IDs of the entries it is done with
  logged,     \* importer -> the roots of the file an error was logged for
  requests    \* requests left, bounded by MaxRequests

treeVars == <<rows, lastID, at, missing, ids, logged, requests>>
importVars == <<at, missing, ids, logged>>

Entries == DOMAIN Config
NoIDs == [i \in Entries |-> Root]

TreeInit ==
  /\ rows = <<>>
  /\ lastID = 0
  /\ at = [a \in Importers |-> 0]
  /\ missing = [a \in Importers |-> FALSE]
  /\ ids = [a \in Importers |-> NoIDs]
  /\ logged = [a \in Importers |-> {}]
  /\ requests = MaxRequests

-----------------------------------------------------------------------------
(* The store *)

Row(name, parent, temp) == [name |-> name, parent |-> parent, temp |-> temp]

\* AUTOINCREMENT: never an ID that was given out before
CreateChannel(row) ==
  /\ lastID' = lastID + 1
  /\ rows' = [c \in DOMAIN rows \cup {lastID + 1} |->
                IF c = lastID + 1 THEN row ELSE rows[c]]

DeleteChannel(c) ==
  /\ rows' = [d \in DOMAIN rows \ {c} |-> rows[d]]
  /\ UNCHANGED lastID

\* A lookup that does not look at the parent, and one that takes it to be the root.
GetChannelByName(name, parent) == {c \in DOMAIN rows : rows[c].name = name}

GetRootByName(name, parent) ==
  {c \in DOMAIN rows : rows[c].name = name /\ rows[c].parent = Root}

GetChannelByNameAndParent(name, parent) ==
  {c \in DOMAIN rows : rows[c].name = name /\ rows[c].parent = parent}

-----------------------------------------------------------------------------
(* Import *)

ParentID(a, i) == IF Config[i].up = 0 THEN Root ELSE ids[a][Config[i].up]

Importing(a) == at[a] \in Entries

\* The root of the file entry i is below
RootOf(i) == Max({j \in 1 .. i : Config[j].up = 0})

StartImport(a) ==
  /\ at[a] = 0
  /\ at' = [at EXCEPT ![a] = 1]
  /\ missing' = [missing EXCEPT ![a] = FALSE]
  /\ ids' = [ids EXCEPT ![a] = NoIDs]
  /\ logged' = [logged EXCEPT ![a] = {}]
  /\ UNCHANGED <<rows, lastID>>

\* The entry has its channel: on to the next one
Placed(a, id) ==
  /\ ids' = [ids EXCEPT ![a][at[a]] = id]
  /\ at' = [at EXCEPT ![a] = @ + 1]
  /\ missing' = [missing EXCEPT ![a] = FALSE]

\* An error is returned up to the root entry, logged there, and the import
\* goes on with the next root
NextRoot(a) ==
  /\ at' = [at EXCEPT ![a] =
              Min({i \in Entries : i > at[a] /\ Config[i].up = 0} \cup {Len(Config) + 1})]
  /\ missing' = [missing EXCEPT ![a] = FALSE]
  /\ logged' = [logged EXCEPT ![a] = @ \cup {RootOf(at[a])}]
  /\ UNCHANGED <<rows, lastID, ids, requests>>

\* The first row that matches, temp or not
LookUp(a) ==
  /\ Importing(a)
  /\ ~missing[a]
  /\ LET hits == GetChannelByNameAndParent(Config[at[a]].name, ParentID(a, at[a]))
     IN IF hits # {}
          THEN Placed(a, Min(hits))
          ELSE missing' = [missing EXCEPT ![a] = TRUE] /\ UNCHANGED <<at, ids>>
  /\ UNCHANGED <<rows, lastID, logged, requests>>

Insert(a) ==
  /\ Importing(a)
  /\ missing[a]
  /\ Config[at[a]].valid
  /\ CreateChannel(Row(Config[at[a]].name, ParentID(a, at[a]), FALSE))
  /\ Placed(a, lastID + 1)
  /\ UNCHANGED <<logged, requests>>

\* Channel.Validate
Invalid(a) ==
  /\ Importing(a)
  /\ missing[a]
  /\ ~Config[at[a]].valid
  /\ NextRoot(a)

\* Either call fails
StoreError(a) == Importing(a) /\ NextRoot(a)

Import(a) == LookUp(a) \/ Insert(a) \/ Invalid(a)

\* What an importer has in memory ends with the import or with the server
Forget(imps) ==
  /\ at' = [a \in Importers |-> IF a \in imps THEN 0 ELSE at[a]]
  /\ missing' = [a \in Importers |-> IF a \in imps THEN FALSE ELSE missing[a]]
  /\ ids' = [a \in Importers |-> IF a \in imps THEN NoIDs ELSE ids[a]]
  /\ logged' = [a \in Importers |-> IF a \in imps THEN {} ELSE logged[a]]
  /\ UNCHANGED <<rows, lastID, requests>>

Imported(a) == at[a] = Len(Config) + 1 /\ Forget({a})

-----------------------------------------------------------------------------
(* Requests of online users: handleImportChannels, handleCreateChannel,    *)
(* handleDeleteChannel.  A permanent channel that is created under a name  *)
(* its siblings have already is what its administrator asked for, and left *)
(* out.                                                                    *)

Request == requests > 0 /\ requests' = requests - 1

ImportRequest(a) == Request /\ StartImport(a)

MakeTemp ==
  /\ Request
  /\ \E name \in TempNames, c \in DOMAIN rows :
       ~rows[c].temp /\ CreateChannel(Row(name, c, TRUE))
  /\ UNCHANGED importVars

Delete ==
  /\ Request
  /\ \E c \in DOMAIN rows : DeleteChannel(c)
  /\ UNCHANGED importVars

-----------------------------------------------------------------------------
(* Export *)

\* Channels keep the index of their parent although others come before it.
BesideUnshifted(left, right) == left \o right

\* Behind one subtree the next: roots stay roots, the rest is shifted
Beside(left, right) ==
  left \o [i \in DOMAIN right |->
             [right[i] EXCEPT !.up = IF @ = 0 THEN 0 ELSE @ + Len(left)]]

Above(name, below) ==
  <<[name |-> name, up |-> 0, valid |-> TRUE]>>
    \o [i \in DOMAIN below |-> [below[i] EXCEPT !.up = @ + 1]]

\* The loop of buildChannelTree at channel c, in the calls for all parents at once:
\* its own parent's puts it, with what the call for c returns, in front of its younger
\* siblings (ListChannels: ORDER BY parent_id, id)
WithChannel(chs, c, below) ==
  IF c \in DOMAIN chs /\ ~chs[c].temp
  THEN [below EXCEPT ![chs[c].parent] = Beside(Above(chs[c].name, below[c]), @)]
  ELSE below

\* Subtrees(chs, last)[c][p] is what the call for p appends from channel c on.  What
\* is below a channel has higher IDs, so the call for c has the channels above c to
\* go through.
Subtrees(chs, last) ==
  LET from[c \in 1 .. last + 1] ==
        IF c = last + 1 THEN [p \in 0 .. last |-> <<>>]
        ELSE WithChannel(chs, c, from[c + 1])
  IN from

\* buildChannelTree(channels, 0)
ExportChannels(chs, last) == Subtrees(chs, last)[1][Root]

\* What an import of a file without invalid entries makes of a store when
\* nobody interferes
NextImported(s, e) ==
  LET parent == IF e.up = 0 THEN Root ELSE s.ids[e.up]
      hits == {c \in DOMAIN s.rows : s.rows[c].name = e.name /\ s.rows[c].parent = parent}
  IN IF hits # {}
       THEN [s EXCEPT !.ids = Append(@, Min(hits))]
       ELSE [rows |-> [c \in DOMAIN s.rows \cup {s.last + 1} |->
                         IF c = s.last + 1 THEN Row(e.name, parent, FALSE) ELSE s.rows[c]],
             last |-> s.last + 1,
             ids |-> Append(s.ids, s.last + 1)]

Imports(file, store) ==
  LET upto[i \in 0 .. Len(file)] ==
        IF i = 0 THEN [rows |-> store, last |-> Max(DOMAIN store \cup {0}), ids |-> <<>>]
        ELSE NextImported(upto[i - 1], file[i])
  IN upto

ImportAll(file, store) == Imports(file, store)[Len(file)]

-----------------------------------------------------------------------------
(* Properties *)

TreeTypeOK ==
  /\ lastID \in Nat
  /\ DOMAIN rows \subseteq 1 .. lastID
  /\ \A c \in DOMAIN rows : rows[c].parent \in 0 .. c - 1 /\ rows[c].temp \in BOOLEAN
  /\ at \in [Importers -> 0 .. Len(Config) + 1]
  /\ missing \in [Importers -> BOOLEAN]
  /\ ids \in [Importers -> [Entries -> 0 .. lastID]]
  /\ logged \in [Importers -> SUBSET Entries]

Permanent == {c \in DOMAIN rows : ~rows[c].temp}

(***************************************************************************)
(* Imports one after the other, cut short at any point by a crash or an    *)
(* error and taken up again, make no channel twice under one parent: what  *)
(* is there is found, whatever was deleted or created in between.          *)
(* ensureChannel looks up and creates in two calls, so this is for imports *)
(* that do not overlap.  (Run may make a second Lobby: it takes an error   *)
(* of ListChannels for an empty store.)                                    *)
(***************************************************************************)
Twins(c, d) ==
  c # d /\ rows[c].name = rows[d].name /\ rows[c].parent = rows[d].parent

NoTwins ==
  \A c, d \in Permanent : Twins(c, d) => rows[c].name = LobbyName

(***************************************************************************)
(* A finished import has put every channel of the file, but those below a  *)
(* root it logged an error for, under its parent, found or made; what is   *)
(* not there any more was deleted since.                                   *)
(***************************************************************************)
ImportPlaces ==
  \A a \in Importers : at[a] = Len(Config) + 1 =>
    \A i \in Entries : RootOf(i) \in logged[a] \/
      /\ ids[a][i] \in 1 .. lastID
      /\ ids[a][i] \in DOMAIN rows =>
           /\ rows[ids[a][i]].name = Config[i].name
           /\ rows[ids[a][i]].parent = ParentID(a, i)

(***************************************************************************)
(* What the server exports is a file: importing it again into the same     *)
(* store adds nothing, and into an empty store it makes a tree that        *)
(* exports as the same file, whatever gaps deletions left in the IDs.      *)
(* Unless a permanent channel has another one of its name beside it: a     *)
(* lookup takes the first, temp or not, and puts below it what the file    *)
(* has below the other.                                                    *)
(***************************************************************************)
ExportRoundTrips ==
  (\A c \in Permanent, d \in DOMAIN rows : ~Twins(c, d)) =>
  LET file == ExportChannels(rows, lastID)
      again == ImportAll(file, rows)
      copy == ImportAll(file, <<>>)
  IN /\ again.rows = rows
     /\ ExportChannels(copy.rows, copy.last) = file
=============================================================================
