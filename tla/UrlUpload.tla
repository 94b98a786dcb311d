----------------------------- MODULE UrlUpload -----------------------------
(***************************************************************************)
(* upload-file-from-url of src/src/tools/url-upload.ts: a download and     *)
(* then one POST of what was downloaded.  The POST is a write as           *)
(* LexwareClient makes it, which is all that WriteCall says.               *)
(***************************************************************************)
EXTENDS RemoteFetch

VARIABLES received,  \* bytes of the body that came, kept or not
          stage,     \* of the handler: fetching, filing or answered
          answer,    \* what its caller hears
          effect, told

filing == <<stage, answer, effect, told>>
uploadVars == <<vars, received, filing>>

File == "file"
Post == INSTANCE WriteCall WITH Write <- {File}

UploadTypeOK ==
    /\ received \in Nat
    /\ stage \in {"fetching", "filing", "answered"}
    /\ answer \in {"none", "fileId", "error"}
    /\ effect \in [{File} -> {0, 1}]
    /\ told \in [{File} -> {"open", "done", "refused", "unclear"}]

UploadInit ==
    /\ Init
    /\ received = 0
    /\ stage = "fetching"
    /\ answer = "none"
    /\ Post!WriteInit

Answer(result) == stage' = "answered" /\ answer' = result

Download ==
    /\ \/ FetchStep /\ UNCHANGED received
       \/ \E n \in 1 .. MaxChunk : Chunk(n) /\ received' = received + n
    /\ UNCHANGED filing

DownloadFails ==
    /\ stage = "fetching"
    /\ pc = "failed"
    /\ Answer("error")
    /\ UNCHANGED <<vars, received, effect, told>>

SendFile ==
    /\ stage = "fetching"
    /\ pc = "file"
    /\ stage' = "filing"
    /\ UNCHANGED <<vars, received, answer, effect, told>>

\* The client settles.  A 2xx with an empty body has no id to answer with.
FileAnswered(verdict) ==
    /\ stage = "filing"
    /\ Post!Tell(File, verdict)
    /\ IF verdict = "done" THEN Answer("fileId") \/ Answer("error") ELSE Answer("error")
    /\ UNCHANGED <<vars, received>>

\* At any time once sent, after the answer too.
LexwareStores ==
    /\ stage # "fetching" /\ pc = "file"
    /\ Post!Happen(File)
    /\ UNCHANGED <<vars, received, stage, answer>>

Filed == \E verdict \in {"done", "refused", "unclear"} : FileAnswered(verdict)

UploadNext == Download \/ DownloadFails \/ SendFile \/ Filed \/ LexwareStores

UploadSpec == UploadInit /\ [][UploadNext]_uploadVars

\* What FairSpec says of the download; the client settles every call.
FairUploadSpec == /\ UploadSpec
                  /\ Fairness
                  /\ WF_uploadVars(DownloadFails \/ SendFile)
                  /\ WF_uploadVars(Filed)

-----------------------------------------------------------------------------
(* Properties *)

\* What is filed is the whole of what the peer sent, and within the limit: a
\* download that failed, was cut off or ran out of time files nothing, not even
\* the part that came.  Who is given an id has a file.
FiledAsFetched ==
    /\ effect[File] = 1 => pc = "file" /\ total = received /\ received <= MaxBytes
    /\ answer = "fileId" => effect[File] = 1

\* The tool answers although a peer never says a word, and all sockets are
\* closed in the end.
EndsAndCloses == <>[](stage = "answered" /\ open = {})

-----------------------------------------------------------------------------
(* The inductive invariant *)

\* Nothing that came has been thrown away while a file can come of it.
AllKept == pc # "failed" => total = received

\* Nothing is filed before the download is complete.
FileFirst ==
    /\ stage = "filing" => pc = "file"
    /\ stage = "fetching" => effect[File] = 0
    /\ effect[File] = 1 => pc = "file"
    /\ answer = "fileId" => effect[File] = 1

UploadInv == IInv /\ UploadTypeOK /\ AllKept /\ FileFirst

=============================================================================
