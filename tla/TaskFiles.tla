------------------------------ MODULE TaskFiles ------------------------------
(***************************************************************************)
(* The files of a task: FilesArea and handleDownload of the two task pages.*)
(* A click asks for a file, and the answer is saved by the browser.  The   *)
(* page of a ticket asks with useMutation and saves in an effect; the page *)
(* of a document asks with useLazyQuery, has an answer kept in the cache   *)
(* of the browser, and saves whenever it is rendered.  In both the answer  *)
(* to the last click is the only one that counts.                          *)
(*                                                                         *)
(* Left out: files that came with the task, which are saved at the click,  *)
(* and those of osTicket that did not, where a click does nothing.         *)
(***************************************************************************)
EXTENDS Naturals, Sequences, SequencesExt

CONSTANTS
  File,
  Fetch,  \* bound: files on their way
  NoFile

ASSUME FileAssumption == NoFile \notin File \cup Fetch

VARIABLES
  area,     \* whose page it is
  fetch,    \* the file each request is for
  heeded,   \* the request whose answer counts
  body,     \* the answer the page has
  stepping, \* a step of the document's process has been sent
  kept,     \* the answers in the cache of the browser
  wanted,   \* history: the file of the last click
  saved,    \* history: what has been saved since then
  refused   \* history: the answer was an error

taskFilesVars == <<area, fetch, heeded, body, stepping, kept, wanted, saved, refused>>

MaxSaved == 2  \* bound: how often a file is seen to be saved

TaskFilesTypeOK ==
  /\ area \in {"tickets", "documents"}
  /\ fetch \in [Fetch -> File \cup {NoFile}] /\ heeded \in Fetch \cup {NoFile}
  /\ body \in File \cup {NoFile} /\ stepping \in BOOLEAN
  /\ kept \subseteq File /\ wanted \in File \cup {NoFile}
  /\ saved \in Seq(File) /\ Len(saved) <= MaxSaved /\ refused \in BOOLEAN

TaskFilesInit ==
  /\ area \in {"tickets", "documents"}
  /\ fetch = [c \in Fetch |-> NoFile] /\ heeded = NoFile /\ body = NoFile
  /\ stepping = FALSE /\ kept = {}
  /\ wanted = NoFile /\ saved = <<>> /\ refused = FALSE

-----------------------------------------------------------------------------
Download(f) == saved' = IF Len(saved) < MaxSaved THEN Append(saved, f) ELSE saved

(* A document's file is asked for once, and then comes from the cache.      *)
FromCache(f) == area = "documents" /\ f \in kept

Clicked(f) == wanted' = f /\ refused' = FALSE /\ UNCHANGED <<area, stepping>>

HandleDownload(f) ==
  /\ Clicked(f)
  /\ \/ /\ FromCache(f)
        /\ body' = f /\ saved' = <<f>> /\ heeded' = NoFile
        /\ UNCHANGED <<fetch, kept>>
     \/ /\ ~FromCache(f)
        /\ \E c \in Fetch :
             /\ fetch[c] = NoFile
             /\ fetch' = [fetch EXCEPT ![c] = f] /\ heeded' = c
        /\ body' = NoFile /\ saved' = <<>>
        /\ UNCHANGED kept

(* A bug: every answer is saved.                                            *)
HasFile_EachAnswer(c) ==
  /\ body' = fetch[c] /\ Download(fetch[c])
  /\ heeded' = IF c = heeded THEN NoFile ELSE heeded

(* The page has the answer, and saves it: in an effect, or rendering.       *)
HasFile(c) ==
  IF c = heeded THEN body' = fetch[c] /\ Download(fetch[c]) /\ heeded' = NoFile
  ELSE UNCHANGED <<body, saved, heeded>>

FileAnswers(c) ==
  /\ fetch[c] # NoFile /\ fetch' = [fetch EXCEPT ![c] = NoFile]
  /\ kept' = IF area = "documents" THEN kept \cup {fetch[c]} ELSE kept
  /\ HasFile(c)
  /\ UNCHANGED <<area, stepping, wanted, refused>>

(* A ticket's page tells so; a document's has no place for it.              *)
FileFails(c) ==
  /\ fetch[c] # NoFile /\ fetch' = [fetch EXCEPT ![c] = NoFile]
  /\ IF c = heeded THEN heeded' = NoFile /\ refused' = TRUE ELSE UNCHANGED <<heeded, refused>>
  /\ UNCHANGED <<area, body, stepping, kept, wanted, saved>>

(* The page of a document saves what it has whenever it is rendered anew.   *)
RenderDocument ==
  /\ area = "documents"
  /\ IF body = NoFile THEN UNCHANGED saved ELSE Download(body)
  /\ UNCHANGED <<area, fetch, heeded, body, kept, wanted, refused>>

(* A comment or a date is typed, or an answer about the task arrives.       *)
HandleComments == RenderDocument /\ UNCHANGED stepping

(* Approve, execute, familiarize...: the buttons are disabled meanwhile.    *)
HandleProcessStep == ~stepping /\ stepping' = TRUE /\ RenderDocument

(* The server does not have the mutation, and the error is not shown.       *)
ProcessStepFails == stepping /\ stepping' = FALSE /\ RenderDocument

TaskFilesNext ==
  \/ \E f \in File : HandleDownload(f)
  \/ \E c \in Fetch : FileAnswers(c) \/ FileFails(c)
  \/ HandleComments \/ HandleProcessStep \/ ProcessStepFails

(* The file that was clicked last is saved once its answer is there, and no *)
(* other file after the click, whatever was asked before and in whatever    *)
(* order the answers come; the page of a ticket saves it once.              *)
FileArrives ==
  /\ ToSet(saved) \subseteq {wanted}
  /\ area = "tickets" => Len(saved) <= 1
  /\ (wanted # NoFile /\ heeded = NoFile) => (saved = <<>>) = refused

-----------------------------------------------------------------------------
(* The inductive invariant behind FileArrives: the request that counts is   *)
(* for the file of the last click, of which nothing has been heard yet, and *)
(* what the page has is that file, saved already.                           *)
FilesInv ==
  /\ TaskFilesTypeOK /\ FileArrives
  /\ heeded # NoFile => /\ fetch[heeded] = wanted /\ wanted # NoFile
                        /\ body = NoFile /\ saved = <<>> /\ ~refused
  /\ body # NoFile => body = wanted /\ ~refused
  /\ wanted = NoFile => saved = <<>>
=============================================================================
