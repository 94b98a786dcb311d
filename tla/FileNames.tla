----------------------------- MODULE FileNames -----------------------------
(***************************************************************************)
(* The name a file is stored under: sanitizeFilename() of                  *)
(* src/src/uploads/filename.ts and the two chains of candidates it serves, *)
(* resolveFilename() of uploads/routes.ts for an upload ticket and         *)
(* resolveDownloadName() of tools/url-upload.ts for a download.            *)
(*                                                                         *)
(* A name is a sequence of UTF-16 code units of six kinds: "sep" is / or   *)
(* \, "ctl" a control character, "space" other white space, "hi" and "lo"  *)
(* the halves of a surrogate pair, "char" the rest.  Absent, a candidate   *)
(* nobody sent, is the empty name: both are passed over.                   *)
(***************************************************************************)
EXTENDS Integers, SequencesExt

CONSTANTS MaxLength,  \* MAX_FILENAME_LENGTH
          Arriving,   \* names as they arrive
          Others      \* a few of them, as the other candidates

\* The kinds of code units; the name of last resort is in one piece.
Kinds == {"sep", "ctl", "space", "hi", "lo", "char", "fixed"}

\* A pair fits, so that no name is cut down to nothing.
ASSUME LengthAssumption == MaxLength \in Nat \ {0, 1}
ASSUME NamesAssumption == \A name \in Arriving \cup Others : name \in Seq(Kinds)

VARIABLES offered,  \* the candidates, first choice first
          stored    \* the name the file got, or absent

nameVars == <<offered, stored>>

Absent == <<>>
Default == <<"fixed">>  \* upload.bin or download.bin

-----------------------------------------------------------------------------
(* sanitizeFilename() *)

Basename(name) == SubSeq(name, Max({0} \cup {i \in DOMAIN name : name[i] = "sep"}) + 1, Len(name))

\* The name without its units of some kinds, and without control characters.
Without(name, kinds) ==
    FoldLeft(LAMBDA kept, u : IF u \in kinds THEN kept ELSE Append(kept, u), <<>>, name)
Printable(name) == Without(name, {"ctl"})

Solid(name) == {i \in DOMAIN name : name[i] # "space"}
TrimEnd(name) == SubSeq(name, 1, Max({0} \cup Solid(name)))
Trim(name) ==
    IF Solid(name) = {} THEN Absent ELSE SubSeq(name, Min(Solid(name)), Max(Solid(name)))

\* Slip: white space first, control characters then.
CleanedLate(name) == Printable(Trim(Basename(name)))

Cleaned(name) == Trim(Printable(Basename(name)))

Cut(name) == LET cut == SubSeq(name, 1, MaxLength)
             IN TrimEnd(IF cut[MaxLength] = "hi" THEN SubSeq(cut, 1, MaxLength - 1) ELSE cut)

SanitizeFilename(name) ==
    LET cleaned == Cleaned(name)
    IN IF Len(cleaned) <= MaxLength THEN cleaned ELSE Cut(cleaned)

-----------------------------------------------------------------------------
(* The candidates *)

FirstOf(names) == LET usable == {i \in DOMAIN names : names[i] # Absent}
                  IN IF usable = {} THEN Default ELSE names[Min(usable)]

\* A decoded name with a control character is not what a client encoded.
DecodeFilenameB64(name) == IF \E i \in DOMAIN name : name[i] = "ctl" THEN Absent ELSE name

ResolveFilename(b64, header, ticket) ==
    FirstOf(<<SanitizeFilename(DecodeFilenameB64(b64)), SanitizeFilename(header),
              SanitizeFilename(ticket)>>)

\* Slip: a filename* there is, usable or not, is all that counts.
ExtendedOnly(extended, plain) ==
    SanitizeFilename(IF extended # Absent THEN extended ELSE plain)

\* filename* of a Content-Disposition header, then its filename.
FilenameFromDisposition(extended, plain) ==
    IF SanitizeFilename(extended) # Absent THEN SanitizeFilename(extended)
    ELSE SanitizeFilename(plain)

ResolveDownloadName(override, extended, plain, last) ==
    FirstOf(<<SanitizeFilename(override), FilenameFromDisposition(extended, plain),
              SanitizeFilename(last)>>)

-----------------------------------------------------------------------------
NameInit == offered = <<>> /\ stored = Absent

UploadByTicket(b64, header, ticket) ==
    /\ offered' = <<DecodeFilenameB64(b64), header, ticket>>
    /\ stored' = ResolveFilename(b64, header, ticket)

UploadFromUrl(override, extended, plain, last) ==
    /\ offered' = <<override, extended, plain, last>>
    /\ stored' = ResolveDownloadName(override, extended, plain, last)

NameNext ==
    /\ offered = <<>>
    /\ \E name \in Arriving, a, b \in Others :
          \/ UploadByTicket(name, a, b) \/ UploadByTicket(a, name, b) \/ UploadByTicket(a, b, name)
          \/ UploadFromUrl(name, Absent, a, b) \/ UploadFromUrl(Absent, name, a, b)
          \/ UploadFromUrl(a, Absent, name, b) \/ UploadFromUrl(Absent, a, b, name)

NameSpec == NameInit /\ [][NameNext]_nameVars

-----------------------------------------------------------------------------
(* Properties *)

\* No half of a surrogate pair is alone.
Whole(name) == \A i \in DOMAIN name :
    /\ name[i] = "hi" => i < Len(name) /\ name[i + 1] = "lo"
    /\ name[i] = "lo" => i > 1 /\ name[i - 1] = "hi"

\* The name a file is stored under is fit for a multipart field and a line of
\* a log: a plain name, neither empty nor too long, without path or control
\* characters or white space around it, and without half a surrogate pair
\* unless one arrived. Once stored it stays as it is when it is offered again.
NamesSafe == stored # Absent =>
    /\ Len(stored) \in 1 .. MaxLength
    /\ \A i \in DOMAIN stored : stored[i] \notin {"sep", "ctl"}
    /\ stored[1] # "space" /\ stored[Len(stored)] # "space"
    /\ (\A i \in DOMAIN offered : Whole(offered[i])) => Whole(stored)
    /\ SanitizeFilename(stored) = stored

\* What can be seen of the last part of a name.
Visible(name) == Without(Basename(name), {"sep", "ctl", "space"})

\* The first candidate of which anything can be seen names the file, and
\* nothing is invented: however odd the others are, a good name is not lost.
NamedAsOffered == offered # <<>> =>
    LET good == {i \in DOMAIN offered : Visible(offered[i]) # <<>>}
        best == offered[Min(good)]
    IN IF good = {} THEN stored = Default
       ELSE /\ Visible(stored) # <<>> /\ IsPrefix(Visible(stored), Visible(best))
            /\ Visible(stored) = Visible(best) \/ Len(best) > MaxLength
=============================================================================
