----------------------------- MODULE NativeSources -----------------------------
(***************************************************************************)
(* The transcripts of sessions: their scan (native/jsonl.rs and the        *)
(* adapters), the refresh of what is recorded of them (native_sources.rs), *)
(* and the validation before a session is resumed (native_launch.rs).      *)
(*                                                                         *)
(* A provider appends records to a file of its own while it is read, and   *)
(* people move, edit and remove files.  A scan may go on where an earlier  *)
(* one ended, as long as the file has the fingerprint it had there: its    *)
(* first and its last bytes.  A refresh scans one root after the other and *)
(* writes what it found in one transaction each.                           *)
(*                                                                         *)
(* A file is its complete lines and whether an incomplete one follows.  A  *)
(* line names a conversation or none and has a text; the windows of the    *)
(* fingerprint hold one line.  A session is its native id, and all are of  *)
(* one provider.                                                           *)
(***************************************************************************)
EXTENDS Naturals, Sequences, FiniteSets, SequencesExt

CONSTANTS Providers,   \* "claude", "codex"
          Roots,       \* the roots in their order, each the set of its paths
          Lines,       \* lines [id, helper, text] of transcripts
          Readers,     \* commands and the daemon
          MaxRecords,  \* limits.max_records
          MaxLines, MaxWrites, MaxReads   \* bounds on files and on calls

VARIABLES
  provider,   \* the provider of all files
  file,       \* the file at each path
  held,       \* what a caller of scan keeps of a path: its SourceState
  read,       \* the lines the file had then
  overlooked, \* paths whose state goes on from lines that were changed between the windows
  sources,    \* native_session_sources, by path
  reader,     \* what each command is doing
  alone,      \* the command, if any, that has acted alone since it began
  fresh,      \* paths that a refresh which acted alone has read since they changed
  writes, reads

sourceVars == <<provider, file, held, read, overlooked, sources, reader, alone, fresh, writes, reads>>

None == "none"
Paths == UNION {Roots[i] : i \in 1..Len(Roots)}
NoFile == [lines |-> <<>>, tail |-> FALSE, there |-> FALSE]
NoConversation == [id |-> None, helper |-> FALSE, text |-> None]
Conflict == [id |-> "conflict", helper |-> FALSE, text |-> None]
NoState == [offset |-> 0, fingerprint |-> <<>>, conversation |-> NoConversation]
NoRow == [snapshot |-> NoConversation, missing |-> TRUE]
NoReader == [pc |-> "idle", root |-> 0, left |-> {}, found |-> [f \in {} |-> NoConversation],
             of |-> None]

-----------------------------------------------------------------------------
(* The scan of a source.                                                   *)

\* apply_record of Codex: a record that names nobody belongs to the conversation.
CodexRecord(c, l) ==
  CASE l.id # None /\ c # NoConversation /\ c.id # l.id -> Conflict
    [] c = NoConversation /\ l.id = None -> c
    [] c = NoConversation /\ l.id # None -> l
    [] OTHER -> [c EXCEPT !.text = l.text]

\* apply_record of Claude: a record that names nobody is passed over.
ClaudeRecord(c, l) ==
  CASE l.id = None -> c
    [] l.id # None /\ c # NoConversation /\ c.id # l.id -> Conflict
    [] l.id # None /\ c = NoConversation -> l
    [] OTHER -> [c EXCEPT !.text = l.text]

Records(c, lines) ==
  FoldLeft(LAMBDA d, l : IF d = Conflict THEN d
                         ELSE IF provider = "codex" THEN CodexRecord(d, l) ELSE ClaudeRecord(d, l),
           c, lines)

\* What is hashed of the first k lines.
Fingerprint(lines, k) == IF k = 0 THEN <<>> ELSE <<lines[1], lines[k]>>

\* validated_start_offset: a file that is shorter, or not the one that was read, is
\* read from its start.
StartOffset(lines, prior) ==
  IF Len(lines) < prior.offset \/ Fingerprint(lines, prior.offset) # prior.fingerprint
    THEN 0 ELSE prior.offset

\* stream_jsonl fails at a line that is no JSON, and at one too many; an incomplete
\* line is left for the next scan.
Streamed(lines) ==
  /\ \A i \in DOMAIN lines : lines[i].text # "invalid"
  /\ Len(lines) <= MaxRecords

\* scan_source: the state after a scan, or NoState if it fails.
Scan(f, prior) ==
  LET from == StartOffset(f.lines, prior)
      rest == SubSeq(f.lines, from + 1, Len(f.lines))
      conversation == Records(IF from = 0 THEN NoConversation ELSE prior.conversation, rest)
  IN  IF f.there /\ Streamed(rest) /\ conversation \notin {NoConversation, Conflict}
        THEN [offset |-> Len(f.lines), fingerprint |-> Fingerprint(f.lines, Len(f.lines)),
              conversation |-> conversation]
        ELSE NoState

\* A conversation of its own, not one of a helper.
TopLevel(c) == c # NoConversation /\ ~c.helper

Init ==
  /\ provider \in Providers
  /\ file = [f \in Paths |-> NoFile]
  /\ held = [f \in Paths |-> NoState] /\ read = [f \in Paths |-> <<>>] /\ overlooked = {}
  /\ sources = [f \in Paths |-> NoRow]
  /\ reader = [p \in Readers |-> NoReader]
  /\ alone = {} /\ fresh = {}
  /\ writes = 0 /\ reads = 0

\* Both windows of the lines that were read are as they were.
SameWindows(old, new) ==
  /\ old # <<>> /\ Len(new) >= Len(old)
  /\ Head(new) = Head(old) /\ new[Len(old)] = Last(old)

\* A scan that goes on where the last one that succeeded ended.
ScanOn(f) ==
  LET lines == file[f].lines
      state == Scan(file[f], held[f])
  IN  /\ state # NoState /\ lines # read[f]
      /\ held' = [held EXCEPT ![f] = state]
      /\ read' = [read EXCEPT ![f] = lines]
      /\ overlooked' = CASE IsPrefix(read[f], lines) -> overlooked
                         [] SameWindows(read[f], lines) /\ ~IsPrefix(read[f], lines) ->
                              overlooked \cup {f}
                         [] OTHER -> overlooked \ {f}
      /\ UNCHANGED <<provider, file, sources, reader, alone, fresh, writes, reads>>

-----------------------------------------------------------------------------
(* The provider and people.                                                *)

Write(f, new) ==
  /\ writes < MaxWrites /\ writes' = writes + 1
  /\ file' = [file EXCEPT ![f] = new]
  /\ alone' = {} /\ fresh' = fresh \ {f}
  /\ UNCHANGED <<provider, held, read, overlooked, sources, reader, reads>>

\* The provider appends a line, whole or in two parts.
AppendLine(f, l) ==
  /\ Len(file[f].lines) < MaxLines
  /\ Write(f, [lines |-> Append(file[f].lines, l), tail |-> FALSE, there |-> TRUE])

AppendPart(f) == file[f].there /\ ~file[f].tail /\ Write(f, [file[f] EXCEPT !.tail = TRUE])

\* The file is removed or cut, or one of its lines is another one.
Delete(f) == file[f].there /\ Write(f, NoFile)
Cut(f) ==
  /\ file[f].lines # <<>>
  /\ Write(f, [file[f] EXCEPT !.lines = Front(@), !.tail = FALSE])
Edit(f, l) ==
  \E i \in DOMAIN file[f].lines :
    /\ file[f].lines[i] # l
    /\ Write(f, [file[f] EXCEPT !.lines[i] = l])

-----------------------------------------------------------------------------
(* refresh, of the daemon and of "session refresh".                        *)

At(p, pc) == reader[p].pc = pc
Step(p) == alone' = alone \cap {p} /\ UNCHANGED <<provider, file, held, read, overlooked, writes, reads>>
Start(p, call) ==
  /\ At(p, "idle") /\ reads < MaxReads /\ reads' = reads + 1
  /\ reader' = [reader EXCEPT ![p] = call]
  /\ alone' = IF \A q \in Readers : At(q, "idle") THEN {p} ELSE {}
  /\ UNCHANGED <<provider, file, held, read, overlooked, sources, fresh, writes>>

\* The own root, and those of the bundles of launches (managed_transcript_roots).
Refresh(p) == Start(p, [NoReader EXCEPT !.pc = "discover", !.root = 1])

\* discover_jsonl_files of the next root.
Discover(p) ==
  /\ At(p, "discover")
  /\ Step(p)
  /\ reader' = [reader EXCEPT ![p].pc = "scan",
                              ![p].left = {f \in Roots[reader[p].root] : file[f].there},
                              ![p].found = NoReader.found]
  /\ UNCHANGED <<sources, fresh>>

\* A file of the inventory, from its start; one that fails is left out.
ScanNext(p) ==
  /\ At(p, "scan")
  /\ Step(p)
  /\ \E f \in reader[p].left :
       LET c == Scan(file[f], NoState).conversation
       IN  reader' = [reader EXCEPT ![p].left = @ \ {f},
                        ![p].found = IF TopLevel(c)
                                       THEN [g \in DOMAIN @ \cup {f} |-> IF g = f THEN c ELSE @[g]]
                                       ELSE @]
  /\ UNCHANGED <<sources, fresh>>

\* The transaction marks every source of the provider and writes those that were found.
Found(found) ==
  [f \in Paths |-> IF f \in DOMAIN found THEN [snapshot |-> found[f], missing |-> FALSE]
                   ELSE [sources[f] EXCEPT !.missing = TRUE]]

Commit(p) ==
  LET last == reader[p].root = Len(Roots)
  IN  /\ At(p, "scan") /\ reader[p].left = {}
      /\ Step(p)
      /\ sources' = Found(reader[p].found)
      /\ reader' = [reader EXCEPT ![p] =
                      IF last THEN NoReader
                      ELSE [@ EXCEPT !.pc = "discover", !.root = @ + 1, !.left = {},
                                     !.found = NoReader.found]]
      /\ fresh' = IF last /\ p \in alone THEN DOMAIN reader[p].found ELSE {}

-----------------------------------------------------------------------------
(* "session resume", and the recovery of a session.                        *)

\* resume_context reads the sources of the session.
ReadContext(p, n) ==
  LET rows == {f \in Paths : sources[f].snapshot.id = n}
  IN  /\ rows # {}
      /\ Start(p, [NoReader EXCEPT !.pc = "validate", !.of = n,
                     !.left = {f \in rows : ~sources[f].missing},
                     !.found = [f \in rows |-> sources[f].snapshot]])

\* preflight_resume: the file is, from its start, the transcript of the session.
Preflight(f, n) ==
  LET c == Scan(file[f], NoState).conversation
  IN  TopLevel(c) /\ c.id = n

\* validate_native_source, of the sources that were not missing when they were read.
Validate(p) ==
  LET call == reader[p]
      passed == \E f \in call.left : TopLevel(call.found[f]) /\ Preflight(f, call.of)
  IN  /\ At(p, "validate")
      /\ Step(p)
      /\ reader' = [reader EXCEPT ![p].pc = IF passed THEN "launched" ELSE "refused"]
      /\ UNCHANGED <<sources, fresh>>

\* The command ends, or is killed.
End(p) ==
  /\ ~At(p, "idle")
  /\ Step(p)
  /\ reader' = [reader EXCEPT ![p] = NoReader]
  /\ UNCHANGED <<sources, fresh>>

Natives == {l.id : l \in Lines} \ {None}

Next ==
  \/ \E f \in Paths :
       \/ ScanOn(f)
       \/ \E l \in Lines : AppendLine(f, l) \/ Edit(f, l)
       \/ AppendPart(f) \/ Delete(f) \/ Cut(f)
  \/ \E p \in Readers :
       \/ Refresh(p) \/ Discover(p) \/ ScanNext(p) \/ Commit(p)
       \/ \E n \in Natives : ReadContext(p, n)
       \/ Validate(p) \/ End(p)

Spec == Init /\ [][Next]_sourceVars

-----------------------------------------------------------------------------
(* Properties.                                                             *)

\* A scan that goes on where another one ended gives what a scan of the whole file
\* gives, however the file was appended to, cut, replaced or removed in between, unless
\* it was changed where the fingerprint does not look.
ScanningOnIsScanning ==
  \A f \in Paths : held[f] # NoState /\ f \notin overlooked =>
                     held[f].conversation = Records(NoConversation, read[f])

\* After a refresh that acted alone the sources that are present are those it has read in
\* the last root, and the sessions of these can be resumed until their files change.
FreshIsResumable ==
  fresh # {} =>
    /\ \A f \in Paths : ~sources[f].missing => f \in fresh
    /\ \A p \in alone : At(p, "refused") => \A f \in fresh : ~Preflight(f, reader[p].of)

\* Every transcript that is there and can be read is present after a refresh that acted
\* alone.  Checked by hand and violated: the transaction of each root marks the sources
\* of all roots, so that those of the last root alone are present in the end.
EveryRootIsPresent ==
  fresh # {} =>
    \A f \in Paths : Preflight(f, sources[f].snapshot.id) => ~sources[f].missing

\* No edit of a transcript passes a scan that goes on.  Checked by hand and violated: an
\* edit between the windows of the fingerprint does.
EditsAreSeen == overlooked = {}
=============================================================================
