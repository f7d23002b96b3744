------------------------------ MODULE FlashLog ------------------------------
(***************************************************************************)
(* The emulated flash: be() appends every page it writes to the file        *)
(* flash_log, a header line with the address and then the data, and looks   *)
(* a page up by walking backwards over the file.  The file outlives the     *)
(* process (BE_init does not remove it), so it may hold a record that a     *)
(* killed process left unfinished.                                          *)
(*                                                                         *)
(* A header is one cell here and the data of a page DATA_LEN cells.         *)
(***************************************************************************)
EXTENDS Integers, Sequences, FiniteSetsExt

CONSTANTS
  Page,        \* physical page addresses
  Byte,        \* contents of a data cell; "ws" stands for white space
  DATA_LEN,    \* data cells of a page (16 KB)
  MAX_WRITES,  \* bound of the model: records in the file
  KILLS,       \* whether the process may be killed and started again
  NONE         \* a page that was never written

VARIABLES
  file,    \* the cells of flash_log
  be_io,   \* the back end's read: "idle", "loop", "found" or "missing"
  want,    \* page it looks for
  pos,     \* file position
  parsed,  \* _ch .. _page: empty while uninitialised
  buf,     \* the data buffer
  writes,  \* records begun
  latest,  \* history: data last written completely to each page
  last     \* history: page of the record at the end of the file, if complete

flashVars == <<file, be_io, want, pos, parsed, buf, writes, latest, last>>

PPA_LOG_LEN == 1
RecordLen == PPA_LOG_LEN + DATA_LEN
Data == [1 .. DATA_LEN -> Byte]

Header(p) == <<"header", p>>
Cells(d) == [k \in 1 .. DATA_LEN |-> <<"data", d[k]>>]
Space == <<"data", "ws">>

Record(p, d) == <<Header(p)>> \o Cells(d)

Init ==
  /\ file = << >> /\ be_io = "idle" /\ want = NONE /\ pos = 0 /\ parsed = << >>
  /\ buf = NONE /\ writes = 0
  /\ latest = [p \in Page |-> NONE] /\ last = NONE

BE_write_log(p, d) ==
  /\ be_io = "idle" /\ writes < MAX_WRITES
  /\ file' = file \o Record(p, d)
  /\ writes' = writes + 1
  /\ latest' = [latest EXCEPT ![p] = d] /\ last' = p
  /\ UNCHANGED <<be_io, want, pos, parsed, buf>>

\* The process is killed between the flushes of the stream, and started again:
\* the record has lost a part of its data.
WriteKilled(p, d) ==
  /\ KILLS /\ be_io = "idle" /\ writes < MAX_WRITES
  /\ \E k \in PPA_LOG_LEN + 1 .. RecordLen - 1 : file' = file \o SubSeq(Record(p, d), 1, k)
  /\ writes' = writes + 1
  /\ last' = NONE /\ buf' = NONE
  /\ UNCHANGED <<be_io, want, pos, parsed, latest>>

-----------------------------------------------------------------------------
ReadStart(p) ==
  /\ be_io = "idle"
  /\ be_io' = "loop" /\ want' = p /\ pos' = Len(file) /\ parsed' = << >>
  /\ UNCHANGED <<file, buf, writes, latest, last>>

\* White space in the format of fscanf skips any amount of it in the file.
SkipSpace(x) == Min({y \in x .. Len(file) : y = Len(file) \/ file[y + 1] # Space})

IsHeader(x) == x < Len(file) /\ file[x + 1][1] = "header"

\* fread: what is left of the file, up to DATA_LEN cells.
ReadData(x) == SubSeq(file, x + 1, Min({x + DATA_LEN, Len(file)}))

\* Mutant: the step back leaves out the header.
BackShort == DATA_LEN

\* How far one iteration steps back from where the last one stopped.
Back == PPA_LOG_LEN + DATA_LEN

\* fseek fails before the beginning of the file.
ReadNotFound ==
  /\ be_io = "loop" /\ pos < Back
  /\ be_io' = "missing"
  /\ UNCHANGED <<file, want, pos, parsed, buf, writes, latest, last>>

\* One iteration: step back, fscanf, compare, and fread on a match.  Where
\* there is no header, fscanf assigns nothing and the comparison is with the
\* address parsed before, or with uninitialised variables.
ReadLoop ==
  /\ be_io = "loop" /\ pos >= Back
  /\ LET x == SkipSpace(pos - Back)
         after == IF IsHeader(x) THEN SkipSpace(x + PPA_LOG_LEN) ELSE x
         address == IF IsHeader(x) THEN <<file[x + 1][2]>> ELSE parsed
     IN /\ parsed' = address
        /\ pos' = after
        /\ \/ /\ address = <<want>> \/ address = << >>
              /\ be_io' = "found" /\ buf' = ReadData(after)
           \/ /\ address # <<want>>
              /\ UNCHANGED <<be_io, buf>>
  /\ UNCHANGED <<file, want, writes, latest, last>>

ReadEnd ==
  /\ be_io \in {"found", "missing"}
  /\ be_io' = "idle"
  /\ UNCHANGED <<file, want, pos, parsed, buf, writes, latest, last>>

ReadStep == ReadNotFound \/ ReadLoop

Next ==
  \/ \E p \in Page : ReadStart(p) \/ \E d \in Data : BE_write_log(p, d) \/ WriteKilled(p, d)
  \/ ReadStep \/ ReadEnd

Spec == Init /\ [][Next]_flashVars

-----------------------------------------------------------------------------
\* The page that was written last, completely, is read back, whatever
\* unfinished records lie before it in the file.
LastWrittenIsRead ==
  be_io \in {"found", "missing"} /\ want = last => be_io = "found" /\ buf = Cells(latest[want])

\* "read latest update log in flash_log file": a lookup returns what was last
\* written to the page, and fails only for a page never written.
ReadsLatest ==
  /\ be_io = "found" => buf = Cells(latest[want])
  /\ be_io = "missing" => latest[want] = NONE
=============================================================================
