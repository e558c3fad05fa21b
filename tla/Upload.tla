------------------------------- MODULE Upload -------------------------------
(***************************************************************************)
(* One file going up to the server: upload() of the engine's transfer.rs.  *)
(* A small file is one PUT; a large one goes up in chunks, to an upload    *)
(* folder that a MOVE publishes (Nextcloud), or as a TUS upload            *)
(* (OpenCloud).  The file may be edited while it goes up, the server       *)
(* may refuse or its answer be lost, and the process may be killed.        *)
(*                                                                         *)
(* The edition of the file that is on disk is a natural number; its chunks *)
(* carry it.  Two editions may have the same length and the same mtime:    *)
(* Stamp[v] is what both say of edition v, and names the upload folder.    *)
(***************************************************************************)
EXTENDS Integers, Sequences, FiniteSets

CONSTANTS
    Chunks,         \* Chunks[v]: how many chunks edition v has
    Stamp,          \* Stamp[v]: the mtime of edition v
    UploadRetries,  \* max_retries
    UploadSettings, \* the circumstances to explore
    MaxUploadFaults, MaxFileEdits    \* bounds

Ways == {"put", "chunks", "tus"}
UploadFaults == {"refuse", "lost", "list", "disk", "cancel", "edit", "kill"}

ASSUME ChunksAssumption ==
    /\ DOMAIN Chunks \subseteq Nat \ {0} /\ DOMAIN Stamp = DOMAIN Chunks
    /\ \A v \in DOMAIN Chunks : Chunks[v] \in Nat \ {0}
ASSUME UploadSettingsAssumption ==
    UploadSettings \subseteq [way : Ways, checksum : BOOLEAN, faults : SUBSET UploadFaults]

\* way: how the file goes up; checksum: the server verifies the one it is sent.
VARIABLES
    way,        \* the circumstances of this behaviour: provider, size, faults
    file,       \* the edition on disk
    published,  \* the chunks of the file the server shows
    folders,    \* folders[id]: the chunks in upload folder id, Missing if none
    tusData,    \* the chunks the server holds for the open TUS upload
    upload,     \* the upload in progress
    upEnded,    \* how the last upload ended
    upFailures, \* the journal's row of failed runs, and the run that is to note its own
    upFaults, fileEdits     \* spent bounds

uploadVars == <<way, file, published, folders, tusData, upload, upEnded, upFailures,
                upFaults, fileEdits>>

Editions == DOMAIN Chunks
Unpublished == <<-1>>

\* The deterministic id of an upload folder: destination, size and mtime.
TransferIds == {<<Chunks[v], Stamp[w]>> : v \in Editions, w \in Editions}
NoChunk == 0
LastChunk == CHOOSE n \in {Chunks[v] : v \in Editions} : \A v \in Editions : Chunks[v] <= n
EmptyFolder == [i \in 1..LastChunk |-> NoChunk]
NoFolder == [i \in 1..LastChunk |-> -1]

WholeEdition(v) == [i \in 1..Chunks[v] |-> v]

NoUpload == [pc |-> "idle", id |-> <<0, 0>>, index |-> 1, size |-> 0, digest |-> 0,
             present |-> {}, attempt |-> 0]

\* The signature of an edition: its length and mtime.
Signature(v) == <<Chunks[v], Stamp[v]>>
NoFailures == [of |-> <<0, 0>>, count |-> 0, run |-> <<0, 0>>, due |-> FALSE]

UploadInit ==
    /\ way \in UploadSettings
    /\ file \in Editions
    /\ published = Unpublished /\ folders = [id \in TransferIds |-> NoFolder]
    /\ tusData = <<>> /\ upload = NoUpload /\ upEnded = "never" /\ upFailures = NoFailures
    /\ upFaults = 0 /\ fileEdits = 0

UpAt(pc) == upload.pc = pc
UpGoto(pc) == upload' = [upload EXCEPT !.pc = pc]

UpStrikes(fault) ==
    /\ fault \in way.faults /\ upFaults < MaxUploadFaults
    /\ upFaults' = upFaults + 1

\* The upload returns; the run has yet to note how.
Ends(how) ==
    /\ upload' = NoUpload /\ upEnded' = how
    /\ upFailures' = [upFailures EXCEPT !.due = TRUE]
Onward == UNCHANGED <<upEnded, upFailures>>

Remembered == <<way, file, fileEdits>>
Store == <<published, folders, tusData>>

\* A retryable failure of the request at hand: the attempts run out, or not.
RetryFrom(pc) ==
    IF upload.attempt < UploadRetries
    THEN upload' = [upload EXCEPT !.pc = pc, !.attempt = @ + 1] /\ Onward
    ELSE Ends("failed")

-----------------------------------------------------------------------------
\* filter_blacklisted: what failed in BLACKLIST_AFTER runs is left alone until the
\* length or the mtime is another.
UploadGivenUp == upFailures.of = Signature(file) /\ upFailures.count >= 3

\* The mtime is the one the scan of the folder saw; the size is read when the
\* upload starts, and the file may have been saved in between.
ScanFile ==
    /\ UpAt("idle") /\ ~upFailures.due
    /\ published # WholeEdition(file) /\ ~UploadGivenUp
    /\ upload' = [NoUpload EXCEPT !.pc = "scanned", !.id = <<0, Stamp[file]>>]
    /\ upFailures' = [upFailures EXCEPT !.run = Signature(file)]
    /\ UNCHANGED <<upEnded, Remembered, Store, upFaults>>

\* When the uploads of the run are over: record_failure counts a run that failed,
\* clear_failure forgets them all; a cancelled upload or a refused login does not
\* count.
NoteUpload ==
    /\ upFailures.due
    /\ upFailures' = CASE upEnded = "done" -> [NoFailures EXCEPT !.run = upFailures.run]
                       [] upEnded = "failed" ->
                             [upFailures EXCEPT !.due = FALSE, !.of = upFailures.run,
                                 !.count = IF upFailures.of = upFailures.run THEN @ + 1 ELSE 1]
                       [] OTHER -> [upFailures EXCEPT !.due = FALSE]
    /\ UNCHANGED <<upEnded, Remembered, Store, upload, upFaults>>

StartUpload ==
    /\ UpAt("scanned")
    /\ upload' = [upload EXCEPT !.id[1] = Chunks[file], !.size = Chunks[file],
                  !.pc = CASE way.way = "put" -> "hash" [] way.way = "chunks" -> "mkcol"
                           [] way.way = "tus" -> "create"]
    /\ Onward /\ UNCHANGED <<Remembered, Store, upFaults>>

CancelUpload ==
    /\ upload.pc \in {"hash", "chunk", "patch"} /\ UpStrikes("cancel")
    /\ folders' = IF UpAt("chunk") THEN [folders EXCEPT ![upload.id] = NoFolder] ELSE folders
    /\ Ends("uncounted") /\ UNCHANGED <<Remembered, published, tusData>>

-----------------------------------------------------------------------------
\* A small file: its checksum, then one PUT of whatever is on disk by then.
Hash ==
    /\ UpAt("hash")
    /\ upload' = [upload EXCEPT !.pc = "put", !.digest = file]
    /\ Onward /\ UNCHANGED <<Remembered, Store, upFaults>>

\* The server refuses a body that does not match the checksum sent with it.
Accepts(data) == way.checksum => data = WholeEdition(upload.digest)

Put ==
    /\ UpAt("put")
    /\ IF Accepts(WholeEdition(file))
       THEN published' = WholeEdition(file) /\ Ends("done")
       ELSE UNCHANGED published /\ Ends("failed")
    /\ UNCHANGED <<Remembered, folders, tusData, upFaults>>

-----------------------------------------------------------------------------
\* chunked_v2: the folder of this destination, size and mtime is made, or is
\* there from an earlier run, and listed.
MakeFolder ==
    /\ UpAt("mkcol")
    /\ folders' = [folders EXCEPT ![upload.id] = IF @ = NoFolder THEN EmptyFolder ELSE @]
    /\ UpGoto("list") /\ Onward
    /\ UNCHANGED <<Remembered, published, tusData, upFaults>>

InFolder == {i \in 1..LastChunk : folders[upload.id][i] \in Editions}

ListFolder ==
    /\ UpAt("list")
    /\ \/ upload' = [upload EXCEPT !.pc = "chunk", !.present = InFolder] /\ UNCHANGED upFaults
       \/ UpStrikes("list") /\ upload' = [upload EXCEPT !.pc = "chunk"]
    /\ Onward /\ UNCHANGED <<Remembered, Store>>

\* Mutant: the last chunk is taken for the end of the file.
EndsEarly == upload.index < Chunks[file]

MoreToRead == upload.index <= Chunks[file]

\* A chunk that already landed is not sent again.
SkipChunk ==
    /\ UpAt("chunk") /\ MoreToRead /\ upload.index \in upload.present
    /\ upload' = [upload EXCEPT !.index = @ + 1]
    /\ Onward /\ UNCHANGED <<Remembered, Store, upFaults>>

PutChunk ==
    /\ UpAt("chunk") /\ MoreToRead /\ upload.index \notin upload.present
    /\ folders' = [folders EXCEPT ![upload.id][upload.index] = file]
    /\ upload' = [upload EXCEPT !.index = @ + 1, !.attempt = 0]
    /\ Onward /\ UNCHANGED <<Remembered, published, tusData, upFaults>>

\* The file ends: its length and checksum are taken anew for the MOVE.
ChunksDone ==
    /\ UpAt("chunk") /\ ~MoreToRead
    /\ upload' = [upload EXCEPT !.pc = "move", !.digest = file]
    /\ Onward /\ UNCHANGED <<Remembered, Store, upFaults>>

Sent == {i \in 1..LastChunk : folders[upload.id][i] \in Editions}

\* What the server puts together from the folder.
Assembled == [i \in 1..Cardinality(Sent) |-> folders[upload.id][i]]

\* Mutant: the MOVE carries no checksum of the file.
MoveUnchecked == Sent = 1..Chunks[upload.digest]

\* The server publishes what has the announced length and checksum.
MoveAccepted ==
    /\ Sent = 1..Chunks[upload.digest]
    /\ Accepts(Assembled)

Publish ==
    /\ published' = Assembled
    /\ folders' = [folders EXCEPT ![upload.id] = NoFolder]

Move ==
    /\ UpAt("move")
    /\ IF MoveAccepted THEN Publish /\ Ends("done")
       ELSE Ends("failed") /\ UNCHANGED <<published, folders>>
    /\ UNCHANGED <<Remembered, tusData, upFaults>>

-----------------------------------------------------------------------------
\* tus: every attempt creates a new upload, and sends it from its offset.
CreateTus ==
    /\ UpAt("create")
    /\ tusData' = <<>> /\ upload' = [upload EXCEPT !.pc = "patch", !.index = 1]
    /\ Onward /\ UNCHANGED <<Remembered, published, folders, upFaults>>

\* One PATCH of the bytes on disk at the offset; past the end of a file that
\* shrank it is empty and the offset stays.
PatchData == IF MoreToRead THEN Append(tusData, file) ELSE tusData

Patch ==
    /\ UpAt("patch") /\ upload.index <= upload.size
    /\ tusData' = PatchData
    /\ upload' = [upload EXCEPT !.index = IF MoreToRead THEN @ + 1 ELSE @]
    /\ published' = IF Len(PatchData) = upload.size THEN PatchData ELSE published
    /\ Onward /\ UNCHANGED <<Remembered, folders, upFaults>>

TusDone ==
    /\ UpAt("patch") /\ upload.index > upload.size
    /\ Ends("done") /\ UNCHANGED <<Remembered, Store, upFaults>>

-----------------------------------------------------------------------------
\* Faults.  The request does not reach the server, or is refused: for now, for
\* good, or the login with it.
RefusedAt(pc) == RetryFrom(pc) \/ Ends("failed") \/ Ends("uncounted")

RequestRefused ==
    /\ UpStrikes("refuse")
    /\ \/ UpAt("put") /\ RefusedAt("hash")
       \/ UpAt("chunk") /\ MoreToRead /\ upload.index \notin upload.present /\ RefusedAt("chunk")
       \/ UpAt("create") /\ RefusedAt("create")
       \/ UpAt("patch") /\ upload.index <= upload.size /\ RetryFrom("create")
       \/ UpAt("mkcol") /\ (Ends("failed") \/ Ends("uncounted"))
       \/ UpAt("move") /\ Ends("failed")
    /\ UNCHANGED <<Remembered, Store>>

\* The file cannot be opened or read (any more).
ReadFails ==
    /\ upload.pc \in {"scanned", "hash", "put", "chunk", "move", "patch"} /\ UpStrikes("disk")
    /\ Ends("failed") /\ UNCHANGED <<Remembered, Store>>

\* It does, and the answer is lost: the engine takes it for a failure.
AnswerLost ==
    /\ UpStrikes("lost")
    /\ \/ /\ UpAt("put") /\ Accepts(WholeEdition(file))
          /\ published' = WholeEdition(file) /\ RetryFrom("hash")
          /\ UNCHANGED <<folders, tusData>>
       \/ /\ UpAt("chunk") /\ MoreToRead /\ upload.index \notin upload.present
          /\ folders' = [folders EXCEPT ![upload.id][upload.index] = file]
          /\ RetryFrom("chunk") /\ UNCHANGED <<published, tusData>>
       \/ /\ UpAt("move") /\ MoveAccepted
          /\ Publish /\ Ends("failed") /\ UNCHANGED tusData
       \/ /\ UpAt("patch") /\ upload.index <= upload.size
          /\ tusData' = PatchData
          /\ published' = IF Len(PatchData) = upload.size THEN PatchData ELSE published
          /\ RetryFrom("create") /\ UNCHANGED folders
    /\ UNCHANGED Remembered

KillUpload ==
    /\ (~UpAt("idle") \/ upFailures.due) /\ UpStrikes("kill")
    /\ upload' = NoUpload /\ upEnded' = "killed"
    /\ upFailures' = [upFailures EXCEPT !.due = FALSE]
    /\ UNCHANGED <<Remembered, Store>>

\* The user saves the file again.
EditFile ==
    /\ "edit" \in way.faults /\ fileEdits < MaxFileEdits
    /\ fileEdits' = fileEdits + 1 /\ file' \in Editions \ {file}
    /\ Onward /\ UNCHANGED <<way, Store, upload, upFaults>>

-----------------------------------------------------------------------------
UploadStep ==
    \/ ScanFile \/ StartUpload \/ Hash \/ Put
    \/ MakeFolder \/ ListFolder \/ SkipChunk \/ PutChunk \/ ChunksDone \/ Move
    \/ CreateTus \/ Patch \/ TusDone \/ NoteUpload

UploadNext ==
    UploadStep \/ CancelUpload \/ RequestRefused \/ ReadFails \/ AnswerLost \/ KillUpload \/ EditFile

UploadSpec == UploadInit /\ [][UploadNext]_uploadVars

-----------------------------------------------------------------------------
\* A resumed upload may find chunks of another edition in its folder; what the
\* server shows is still one edition of the local file.
PublishedIsOneEdition ==
    published = Unpublished \/ \E v \in Editions : published = WholeEdition(v)

\* A kept chunk of another edition of the same length and mtime.
StaleFolder ==
    LET kept == folders[<<Chunks[file], Stamp[file]>>]
    IN  \E i \in DOMAIN kept : kept[i] \in Editions \ {file}

=============================================================================
