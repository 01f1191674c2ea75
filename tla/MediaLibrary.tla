---------------------------- MODULE MediaLibrary ----------------------------
(***************************************************************************)
(* What the back office makes of tracks and mindfulness resources: each    *)
(* has an audio file and an image in S3, put there under a generated key   *)
(* before the row that names the key is written. Requests run concurrently;*)
(* nothing is ever taken out of S3. All tracks here have the same name and *)
(* all resources the same category, so that their keys are of one folder.  *)
(***************************************************************************)
EXTENDS Integers

CONSTANTS
  Tracks, Resources,  \* what may be created
  FileNames,          \* original names of uploaded files
  MaxEdits,           \* bound: requests
  MaxMillis,          \* bound: milliseconds
  MaxEditFaults       \* bound: requests that fail half-way

NoFile == "none"
NoKey  == <<>>
Nobody == [edit |-> 0, media |-> "none"]
Edits  == 1..MaxEdits   \* in the order they begin
Entries == Tracks \cup Resources
Media  == {"audio", "image"}

ASSUME MediaAssumption ==
  /\ Tracks \cap Resources = {} /\ NoFile \notin FileNames /\ NoFile \notin Entries
  /\ MaxEdits \in Nat /\ MaxMillis \in Nat \ {0} /\ MaxEditFaults \in Nat

\* Where a file is kept: the folder, the sort of file, and the rest of the name.
Keys == {"tracks", "resources"} \X Media \X (FileNames \cup 1..MaxMillis)

VARIABLES
  item,       \* Track and MindfulnessResource rows
  storage,     \* S3: what was uploaded under each key
  edit,        \* the requests
  millis,      \* the clock
  editFaults,  \* requests that failed so far
  latest,      \* history: the edit whose audio and image each row was given last
  reused,      \* history: keys that two edits uploaded to
  stale        \* history: tracks written while another edit of them was open

mediaVars == <<item, storage, edit, millis, editFaults, latest, reused, stale>>

NoEntry == [there |-> FALSE, audio |-> NoKey, image |-> NoKey]
NoEdit  == [pc |-> "none", of |-> NoFile, audio |-> NoFile, image |-> FALSE,
            keys |-> [audio |-> NoKey, image |-> NoKey]]

MediaInit ==
  /\ item = [e \in Entries |-> NoEntry]
  /\ storage = [k \in Keys |-> Nobody]
  /\ edit = [d \in Edits |-> NoEdit]
  /\ millis = 1
  /\ editFaults = 0
  /\ latest = [e \in Entries |-> [audio |-> 0, image |-> 0]]
  /\ reused = {} /\ stale = {}

OpenEdits(e) == {d \in Edits : edit[d].of = e /\ edit[d].pc \notin {"none", "done"}}

\* Request d about e begins, with the files it came with and the keys it has read.
BeginEdit(d, e, audio, image, keys) ==
  /\ edit[d].pc = "none" /\ \A c \in Edits : c < d => edit[c].pc # "none"
  /\ edit' = [edit EXCEPT ![d] = [pc |-> "audio", of |-> e, audio |-> audio, image |-> image,
                                  keys |-> keys]]
  /\ UNCHANGED <<item, storage, millis, editFaults, latest, reused, stale>>

----------------------------------------------------------------------------
(* createTrack, createMindfulnessResource                                  *)

CreateTrack(d, e) ==
  /\ e \in Tracks /\ ~item[e].there /\ OpenEdits(e) = {}
  /\ \E audio \in FileNames, image \in BOOLEAN : BeginEdit(d, e, audio, image, NoEdit.keys)

CreateResource(d, e) ==
  /\ e \in Resources /\ ~item[e].there /\ OpenEdits(e) = {}
  /\ \E audio \in FileNames, image \in BOOLEAN : BeginEdit(d, e, audio, image, NoEdit.keys)

----------------------------------------------------------------------------
(* updateTrack, updateMindfulnessResource                                  *)

\* A track's keys are read first, and written back unless a file replaces them. The
\* mutant does not read them.
KeptNot(e) == NoEdit.keys
Kept(e) == [audio |-> item[e].audio, image |-> item[e].image]

FindTrack(d, e) ==
  /\ e \in Tracks /\ item[e].there
  /\ \E audio \in FileNames \cup {NoFile}, image \in BOOLEAN : BeginEdit(d, e, audio, image, Kept(e))

\* A resource's are not, and without an audio file the request fails.
FindResource(d, e) ==
  /\ e \in Resources /\ item[e].there
  /\ \E audio \in FileNames, image \in BOOLEAN : BeginEdit(d, e, audio, image, NoEdit.keys)

----------------------------------------------------------------------------
(* Uploads                                                                 *)

\* A track's files are named by the clock, a resource's image too, but its audio by
\* the name the file came with.
TrackKey(media) == <<"tracks", media, millis>>
ResourceKey(media, name) == <<"resources", media, IF media = "image" THEN millis ELSE name>>

Key(d, media) ==
  IF edit[d].of \in Tracks THEN TrackKey(media) ELSE ResourceKey(media, edit[d].audio)

UploadFile(d, media) ==
  LET k == Key(d, media) IN
  /\ storage' = [storage EXCEPT ![k] = [edit |-> d, media |-> media]]
  /\ reused' = IF storage[k].edit \in {0, d} THEN reused ELSE reused \cup {k}
  /\ edit' = [edit EXCEPT ![d].keys[media] = k,
                          ![d].pc = IF media = "audio" THEN "image" ELSE "write"]

UploadAudio(d) ==
  /\ edit[d].pc = "audio"
  /\ IF edit[d].audio # NoFile THEN UploadFile(d, "audio")
     ELSE edit' = [edit EXCEPT ![d].pc = "image"] /\ UNCHANGED <<storage, reused>>
  /\ UNCHANGED <<item, millis, editFaults, latest, stale>>

UploadImage(d) ==
  /\ edit[d].pc = "image"
  /\ IF edit[d].image THEN UploadFile(d, "image")
     ELSE edit' = [edit EXCEPT ![d].pc = "write"] /\ UNCHANGED <<storage, reused>>
  /\ UNCHANGED <<item, millis, editFaults, latest, stale>>

----------------------------------------------------------------------------
(* The row is written                                                      *)

NoteLatest(d) ==
  latest' = [latest EXCEPT ![edit[d].of] =
    [audio |-> IF edit[d].audio # NoFile THEN d ELSE @.audio,
     image |-> IF edit[d].image THEN d ELSE @.image]]

\* Both keys as they are, those that were read included.
WriteTrack(d) ==
  LET e == edit[d].of  k == edit[d].keys IN
  /\ edit[d].pc = "write" /\ e \in Tracks
  /\ item' = [item EXCEPT ![e] = [there |-> TRUE, audio |-> k.audio, image |-> k.image]]
  /\ edit' = [edit EXCEPT ![d].pc = "done"]
  /\ NoteLatest(d)
  /\ stale' = IF OpenEdits(e) # {d} THEN stale \cup {e} ELSE stale
  /\ UNCHANGED <<storage, millis, editFaults, reused>>

\* An image key that is undefined is left as it is.
WriteResource(d) ==
  LET e == edit[d].of  k == edit[d].keys IN
  /\ edit[d].pc = "write" /\ e \in Resources
  /\ item' = [item EXCEPT ![e].there = TRUE, ![e].audio = k.audio,
                            ![e].image = IF k.image = NoKey THEN @ ELSE k.image]
  /\ edit' = [edit EXCEPT ![d].pc = "done"]
  /\ NoteLatest(d)
  /\ UNCHANGED <<storage, millis, editFaults, reused, stale>>

\* What was uploaded stays. A row that was never written is never heard of again.
EditFails(d) ==
  /\ editFaults < MaxEditFaults /\ edit[d].pc \notin {"none", "done"}
  /\ editFaults' = editFaults + 1
  /\ edit' = [edit EXCEPT ![d].pc = "done"]
  /\ UNCHANGED <<item, storage, millis, latest, reused, stale>>

Tick ==
  /\ millis < MaxMillis
  /\ millis' = millis + 1
  /\ UNCHANGED <<item, storage, edit, editFaults, latest, reused, stale>>

MediaNext ==
  \/ \E d \in Edits :
       \/ \E e \in Entries :
            CreateTrack(d, e) \/ CreateResource(d, e) \/ FindTrack(d, e) \/ FindResource(d, e)
       \/ UploadAudio(d) \/ UploadImage(d) \/ WriteTrack(d) \/ WriteResource(d)
       \/ EditFails(d)
  \/ Tick

MediaSpec == MediaInit /\ [][MediaNext]_mediaVars

----------------------------------------------------------------------------
(* Properties                                                              *)

MediaTypeOK ==
  /\ item \in [Entries -> [there : BOOLEAN, audio : Keys \cup {NoKey}, image : Keys \cup {NoKey}]]
  /\ storage \in [Keys -> [edit : Edits \cup {0}, media : Media \cup {"none"}]]
  /\ edit \in [Edits -> [pc : {"none", "audio", "image", "write", "done"},
                         of : Entries \cup {NoFile}, audio : FileNames \cup {NoFile},
                         image : BOOLEAN,
                         keys : [audio : Keys \cup {NoKey}, image : Keys \cup {NoKey}]]]
  /\ millis \in 1..MaxMillis /\ editFaults \in Nat
  /\ latest \in [Entries -> [audio : Edits \cup {0}, image : Edits \cup {0}]]
  /\ reused \subseteq Keys /\ stale \subseteq Tracks

\* Whatever edits failed on the way, a row names the audio and the image it was given
\* last, and under that key S3 has that very file, unless two edits uploaded to one
\* key, or an edit of a track was written while another of it was open.
ShowsItsFiles ==
  \A e \in Entries \ stale, m \in Media :
    LET k == item[e][m] IN
    /\ k = NoKey <=> latest[e][m] = 0
    /\ k # NoKey /\ k \notin reused => storage[k] = [edit |-> latest[e][m], media |-> m]
=============================================================================
