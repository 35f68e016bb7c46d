-------------------------------- MODULE Files --------------------------------
(***************************************************************************)
(* The files an account sends before it uses them: a row of files for each *)
(* and its content on disk, written in separate steps; the quota; and the  *)
(* cleaner, which removes rows and then contents.  A module that composes  *)
(* this one links the files, and says which rows its transactions hold.    *)
(***************************************************************************)
EXTENDS Naturals, FiniteSets

CONSTANTS
  Files,  \* uploads of one account; each has an id and a storage key of its own
  TEMPORARY_FILES_QUOTA,
  None    \* no file, no request: for the modules that compose this one

VARIABLES
  row,        \* the row of each file: absent, temporary, linked or removed
  expired,    \* files sent more than FILES_TEMP_TTL_HOURS ago
  content,    \* files whose content is on disk
  upload,     \* progress of the request that sends each file
  discarding  \* contents the cleaner has yet to remove

fileVars == << row, expired, content, upload, discarding >>

ASSUME QuotaAssumption == TEMPORARY_FILES_QUOTA \in Nat

FilesInit ==
  /\ row = [f \in Files |-> "ausente"]
  /\ expired = {}
  /\ content = {}
  /\ upload = [f \in Files |-> "nova"]
  /\ discarding = {}

Temporary == { f \in Files : row[f] = "temporario" }

-----------------------------------------------------------------------------
(* FilesService.upload                                                     *)

quotaReached == Cardinality(Temporary) >= TEMPORARY_FILES_QUOTA

\* The quota is looked at, and the content put.
Put(f) ==
  /\ upload[f] = "nova"
  /\ ~quotaReached
  /\ content' = content \union {f}
  /\ upload' = [upload EXCEPT ![f] = "gravou"]
  /\ UNCHANGED << row, expired, discarding >>

\* Mutant: the row is inserted before its content is there.
InsertFile_First(f) ==
  /\ upload[f] = "nova"
  /\ row' = [row EXCEPT ![f] = "temporario"]
  /\ UNCHANGED << expired, content, upload, discarding >>

InsertFile(f) ==
  /\ upload[f] = "gravou"
  /\ row' = [row EXCEPT ![f] = "temporario"]
  /\ upload' = [upload EXCEPT ![f] = "concluida"]
  /\ UNCHANGED << expired, content, discarding >>

InsertFails(f) ==
  /\ upload[f] = "gravou"
  /\ upload' = [upload EXCEPT ![f] = "descarta"]
  /\ UNCHANGED << row, expired, content, discarding >>

\* A content that cannot be removed stays.
Discard(f) ==
  /\ upload[f] = "descarta"
  /\ content' \in {content, content \ {f}}
  /\ upload' = [upload EXCEPT ![f] = "concluida"]
  /\ UNCHANGED << row, expired, discarding >>

-----------------------------------------------------------------------------
(* TemporaryFilesCleaner                                                   *)

\* FILES_TEMP_TTL_HOURS pass.
Expires(f) ==
  /\ f \in Temporary \ expired
  /\ expired' = expired \union {f}
  /\ UNCHANGED << row, content, upload, discarding >>

abandoned == expired \intersect Temporary

\* One statement; it waits for the rows transactions hold.
RemoveExpired(heldFiles) ==
  /\ discarding = {} /\ abandoned # {}
  /\ abandoned \intersect heldFiles = {}
  /\ row' = [f \in Files |-> IF f \in abandoned THEN "removido" ELSE row[f]]
  /\ discarding' = abandoned
  /\ UNCHANGED << expired, content, upload >>

DiscardExpired(f) ==
  /\ f \in discarding
  /\ content' \in {content, content \ {f}}
  /\ discarding' = discarding \ {f}
  /\ UNCHANGED << row, expired, upload >>

\* The process stops: what it was doing with files is left as it is.
StopFiles ==
  /\ upload' = [f \in Files |-> IF upload[f] = "nova" THEN "nova" ELSE "concluida"]
  /\ discarding' = {}
  /\ UNCHANGED << row, expired, content >>

-----------------------------------------------------------------------------

\* A row never points at a content that does not exist: uploads write the
\* content first, and the cleaner removes it last.
RecordHasContent ==
  \A f \in Files : row[f] \in {"temporario", "vinculado"} => f \in content

=============================================================================
