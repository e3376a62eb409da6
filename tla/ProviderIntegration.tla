-------------------------- MODULE ProviderIntegration --------------------------
(***************************************************************************)
(* Removing what Workboard once installed in the home of a provider        *)
(* (application/integration.rs, integration_service.rs): its handlers in   *)
(* the configuration of hooks, and two workflow contracts.                 *)
(*                                                                         *)
(* The files belong to a person, who may save, replace or delete them at   *)
(* any time; nothing locks them.  A removal is previewed, confirmed with   *)
(* the token of the preview, and then made file by file: each file is      *)
(* backed up, compared, moved out of its place, compared once more and     *)
(* only then dropped, or else put back.                                    *)
(***************************************************************************)
EXTENDS Naturals, Sequences, FiniteSets

CONSTANTS Processes,    \* calls that may run at the same time
          MaxPreviews,  \* bound on previews
          MaxRemovals,  \* bound on removals
          MaxSaves,     \* bound on what a person does to the files
          MaxFaults     \* bound on failed and killed calls

\* In the order in which they are read and changed.
FileOrder == <<"workflow", "compatibility", "configuration">>
Files == {"workflow", "compatibility", "configuration"}

VARIABLES
  file,          \* what is at the place of each file
  saved,         \* the text a person saved there last, 0 if deleted or overwritten
  kept,          \* texts in backups, or left where they were moved to
  confirmation,  \* integration_confirmations
  registered,    \* integration_registrations
  process, removals, saves, faults

disk == <<file, saved, kept>>
database == <<confirmation, registered>>
bounds == <<removals, saves, faults>>
vars == <<disk, database, process, bounds>>

\* A text is the person's part of a file.  A file is Workboard's if it has its
\* handlers or its mark; a configuration may be malformed.
Nothing == [text |-> 0, form |-> "absent"]
Forms(f) == {"owned", "foreign"} \cup (IF f = "configuration" THEN {"malformed"} ELSE {})
NoCall == [pc |-> "idle", token |-> 0, plan |-> [f \in Files |-> Nothing], todo |-> <<>>,
           changed |-> {}, held |-> Nothing]

Init ==
  /\ file \in {home \in [Files -> {Nothing} \cup [text : {1}, form : Forms("configuration")]] :
                 \A f \in Files : home[f] = Nothing \/ home[f].form \in Forms(f)}
  /\ saved = [f \in Files |-> file[f].text]
  /\ kept = {}
  /\ confirmation = <<>> /\ registered = TRUE
  /\ process = [p \in Processes |-> NoCall]
  /\ removals = 0 /\ saves = 0 /\ faults = 0

At(p, pc) == process[p].pc = pc
Become(p, call) == process' = [process EXCEPT ![p] = call]
Goto(p, pc) == Become(p, [process[p] EXCEPT !.pc = pc])
Return(p) == Become(p, NoCall)

\* The file that a call is at, and what its plan says of it.
Current(p) == Head(process[p].todo)
Planned(p) == process[p].plan[Current(p)]

-----------------------------------------------------------------------------
(* execute: load, preview and confirmation.                                *)

BeginPreview(p) ==
  /\ At(p, "idle")
  /\ Len(confirmation) + Cardinality({q \in Processes : ~At(q, "idle") /\ process[q].token = 0})
       < MaxPreviews
  /\ Become(p, [NoCall EXCEPT !.pc = "load", !.todo = FileOrder])
  /\ UNCHANGED <<disk, database, bounds>>

BeginRemove(p) ==
  /\ At(p, "idle") /\ removals < MaxRemovals
  /\ removals' = removals + 1
  /\ \E token \in DOMAIN confirmation :
       Become(p, [NoCall EXCEPT !.pc = "load", !.todo = FileOrder, !.token = token])
  /\ UNCHANGED <<disk, database, saves, faults>>

\* A malformed configuration is read as if it had no text.
ReadOf(content) ==
  IF content.form = "malformed" THEN [content EXCEPT !.text = 0] ELSE content

\* One file after the other is read.
Load(p) ==
  /\ At(p, "load")
  /\ Become(p, [process[p] EXCEPT
       !.plan[Current(p)] = ReadOf(file[Current(p)]),
       !.todo = Tail(@),
       !.pc = IF Tail(process[p].todo) # <<>> THEN "load"
              ELSE IF process[p].token = 0 THEN "preview" ELSE "validate"])
  /\ UNCHANGED <<disk, database, bounds>>

\* The digest covers what each file is and what it would become.
StoreConfirmation(p) ==
  /\ At(p, "preview")
  /\ confirmation' = Append(confirmation, [digest |-> process[p].plan, status |-> "open"])
  /\ Return(p)
  /\ UNCHANGED <<disk, registered, bounds>>

\* Mistake: a confirmation holds whatever has become of the files.
ValidForAny(p) == confirmation[process[p].token].status = "open"

Valid(p) == confirmation[process[p].token] = [digest |-> process[p].plan, status |-> "open"]

ValidateConfirmation(p) ==
  /\ At(p, "validate")
  /\ IF Valid(p) THEN Become(p, [process[p] EXCEPT !.pc = "mutate", !.todo = FileOrder])
     ELSE Return(p)
  /\ UNCHANGED <<disk, database, bounds>>

\* Ten minutes have passed.
Expire(token) ==
  /\ confirmation[token].status = "open"
  /\ confirmation' = [confirmation EXCEPT ![token].status = "expired"]
  /\ UNCHANGED <<disk, registered, process, bounds>>

-----------------------------------------------------------------------------
(* apply: the contracts first, the configuration last.                     *)

\* Mistake: a removal that fails at the second contract leaves the first removed.
UndoneLast(call) ==
  IF Head(call.todo) = "configuration" /\ call.changed # {}
  THEN <<"compatibility", "workflow">> ELSE <<>>

\* What is put back when the call fails at the file it is at.
Undone(call) ==
  IF call.changed = {} THEN <<>>
  ELSE IF Head(call.todo) = "compatibility" THEN <<"workflow">>
  ELSE <<"compatibility", "workflow">>

Failed(call) ==
  IF Undone(call) = <<>> THEN NoCall
  ELSE [call EXCEPT !.pc = "undo", !.todo = Undone(call), !.held = Nothing]

Fail(p) == Become(p, Failed(process[p]))

\* The call goes on with the next file, or with complete_mutation.
Advanced(call) ==
  [call EXCEPT !.held = Nothing, !.todo = Tail(@),
               !.pc = IF Tail(call.todo) = <<>> THEN "complete" ELSE "mutate"]

\* mutate_owned_file and apply_configuration.
MutateFile(p) ==
  /\ At(p, "mutate")
  /\ \/ Planned(p).form = "owned" /\ Goto(p, "backup")
     \/ Planned(p).form \in {"absent", "foreign"} /\ Become(p, Advanced(process[p]))
     \/ Planned(p).form = "malformed" /\ Fail(p)
  /\ UNCHANGED <<disk, database, bounds>>

\* The backup is of what was read, not of what is there now.
CreateBackup(p) ==
  /\ At(p, "backup")
  /\ kept' = kept \cup {<<Current(p), Planned(p).text>>}
  /\ Goto(p, "check")
  /\ UNCHANGED <<file, saved, database, bounds>>

CheckActual(p) ==
  /\ At(p, "check")
  /\ IF file[Current(p)] = Planned(p) THEN Goto(p, "displace") ELSE Fail(p)
  /\ UNCHANGED <<disk, database, bounds>>

\* displace_configuration: whatever is there now is moved to a name of its own.
Displace(p) ==
  /\ At(p, "displace")
  /\ \/ /\ file[Current(p)] # Nothing
        /\ Become(p, [process[p] EXCEPT !.pc = "compare", !.held = file[Current(p)]])
        /\ file' = [file EXCEPT ![Current(p)] = Nothing]
     \/ file[Current(p)] = Nothing /\ Fail(p) /\ UNCHANGED file
  /\ UNCHANGED <<saved, kept, database, bounds>>

\* Mistake: what was moved is taken for what was read.
AsReadBefore(p) == TRUE

AsRead(p) == process[p].held = Planned(p)

CompareDisplaced(p) ==
  /\ At(p, "compare")
  /\ Goto(p, IF AsRead(p) THEN "finish" ELSE "look")
  /\ UNCHANGED <<disk, database, bounds>>

RemoveContract(p) ==
  /\ At(p, "finish") /\ Current(p) # "configuration"
  /\ Become(p, Advanced([process[p] EXCEPT !.changed = @ \cup {Current(p)}]))
  /\ UNCHANGED <<disk, database, bounds>>

\* remove_owned: the person's part stays.
RemoveOwned(content) == [content EXCEPT !.form = "foreign"]

\* persist_noclobber: nothing that has come there meanwhile is overwritten.
PersistConfiguration(p) ==
  /\ At(p, "finish") /\ Current(p) = "configuration"
  /\ \/ /\ file["configuration"] = Nothing
        /\ file' = [file EXCEPT !["configuration"] = RemoveOwned(Planned(p))]
        /\ Become(p, Advanced([process[p] EXCEPT !.changed = @ \cup {"configuration"}]))
     \/ file["configuration"] # Nothing /\ Goto(p, "occupied") /\ UNCHANGED file
  /\ UNCHANGED <<saved, kept, database, bounds>>

Occupied(p) ==
  /\ At(p, "occupied")
  /\ IF file["configuration"] # Nothing THEN Fail(p) ELSE Goto(p, "look")
  /\ UNCHANGED <<disk, database, bounds>>

\* restore_displaced_configuration looks whether the place is free ...
LookAtPlace(p) ==
  /\ At(p, "look")
  /\ \/ file[Current(p)] = Nothing /\ Goto(p, "restore") /\ UNCHANGED kept
     \/ /\ file[Current(p)] # Nothing
        /\ kept' = kept \cup {<<Current(p), process[p].held.text>>}
        /\ Fail(p)
  /\ UNCHANGED <<file, saved, database, bounds>>

\* ... and then renames over whatever has come there in between, which is lost.
RestoreDisplaced(p) ==
  /\ At(p, "restore")
  /\ file' = [file EXCEPT ![Current(p)] = process[p].held]
  /\ saved' = IF file[Current(p)] = Nothing THEN saved ELSE [saved EXCEPT ![Current(p)] = 0]
  /\ Fail(p)
  /\ UNCHANGED <<kept, database, bounds>>

\* rollback_owned_file puts back a contract, if it is Workboard's and its place
\* is free; if not, it gives up and leaves the others as they are.
UndoFile(p) ==
  LET f == Current(p)
      rest == IF Tail(process[p].todo) = <<>> THEN NoCall
              ELSE [process[p] EXCEPT !.todo = Tail(@), !.changed = @ \ {f}]
  IN  /\ At(p, "undo")
      /\ \/ Planned(p) = Nothing /\ Become(p, rest) /\ UNCHANGED file
         \/ /\ Planned(p).form = "owned" /\ file[f] = Nothing
            /\ file' = [file EXCEPT ![f] = Planned(p)]
            /\ Become(p, rest)
         \/ /\ Planned(p).form = "foreign" \/ (Planned(p) # Nothing /\ file[f] # Nothing)
            /\ Return(p) /\ UNCHANGED file
      /\ UNCHANGED <<saved, kept, database, bounds>>

\* complete_mutation.
CompleteMutation(p) ==
  /\ At(p, "complete")
  /\ confirmation' = [confirmation EXCEPT ![process[p].token].status = "consumed"]
  /\ registered' = FALSE
  /\ Return(p)
  /\ UNCHANGED <<disk, bounds>>

-----------------------------------------------------------------------------
(* What happens around the calls.                                          *)

\* A person saves or deletes a file.
Save(f) ==
  /\ saves < MaxSaves
  /\ saves' = saves + 1
  /\ \/ /\ \E form \in Forms(f) : file' = [file EXCEPT ![f] = [text |-> saves + 2, form |-> form]]
        /\ saved' = [saved EXCEPT ![f] = saves + 2]
     \/ /\ file[f] # Nothing
        /\ file' = [file EXCEPT ![f] = Nothing]
        /\ saved' = [saved EXCEPT ![f] = 0]
  /\ UNCHANGED <<kept, database, process, removals, faults>>

LeftAside(p) == IF process[p].held = Nothing THEN {} ELSE {<<Current(p), process[p].held.text>>}

\* The call is killed: what it has moved stays where it is.
Crash(p) ==
  /\ ~At(p, "idle") /\ faults < MaxFaults
  /\ faults' = faults + 1
  /\ kept' = kept \cup LeftAside(p)
  /\ Return(p)
  /\ UNCHANGED <<file, saved, database, removals, saves>>

\* An operation on a file or on the database fails.
Error(p) ==
  /\ faults < MaxFaults
  /\ faults' = faults + 1
  /\ \/ /\ process[p].pc \in {"load", "preview", "validate", "undo", "complete"}
        /\ Return(p) /\ UNCHANGED kept
     \/ /\ process[p].pc \in {"backup", "check", "displace"}
        /\ Fail(p) /\ UNCHANGED kept
     \/ /\ process[p].pc \in {"compare", "finish"} /\ Current(p) = "configuration"
        /\ Goto(p, IF At(p, "compare") THEN "look" ELSE "occupied") /\ UNCHANGED kept
     \/ /\ \/ At(p, "restore")
           \/ process[p].pc \in {"compare", "finish"} /\ Current(p) # "configuration"
        /\ kept' = kept \cup LeftAside(p)
        /\ Fail(p)
  /\ UNCHANGED <<file, saved, database, removals, saves>>

\* execute_integration: status only reads.
Request(p) == BeginPreview(p) \/ BeginRemove(p)

Next ==
  \/ \E p \in Processes :
       \/ Request(p) \/ Load(p) \/ StoreConfirmation(p)
       \/ ValidateConfirmation(p) \/ MutateFile(p) \/ CreateBackup(p) \/ CheckActual(p)
       \/ Displace(p) \/ CompareDisplaced(p) \/ RemoveContract(p) \/ PersistConfiguration(p)
       \/ Occupied(p) \/ LookAtPlace(p) \/ RestoreDisplaced(p) \/ UndoFile(p)
       \/ CompleteMutation(p) \/ Crash(p) \/ Error(p)
  \/ \E token \in DOMAIN confirmation : Expire(token)
  \/ \E f \in Files : Save(f)

Spec == Init /\ [][Next]_vars

-----------------------------------------------------------------------------
(* Properties.                                                             *)

Texts == 0..MaxSaves + 1
Contents(f) == {Nothing} \cup [text : Texts \ {0}, form : Forms(f)]
ReadContents(f) == {ReadOf(content) : content \in Contents(f)}

\* Every file, row and call keeps to its values.
TypeOK ==
  /\ \A f \in Files : file[f] \in Contents(f)
  /\ saved \in [Files -> Texts]
  /\ kept \subseteq Files \X Texts
  /\ \A token \in DOMAIN confirmation :
       /\ confirmation[token].status \in {"open", "expired", "consumed"}
       /\ \A f \in Files : confirmation[token].digest[f] \in ReadContents(f)
  /\ Len(confirmation) <= MaxPreviews /\ registered \in BOOLEAN
  /\ \A p \in Processes :
       /\ process[p].token \in 0..Len(confirmation)
       /\ \A f \in Files : process[p].plan[f] \in ReadContents(f)
       /\ process[p].held # Nothing => process[p].held \in Contents(Current(p))
  /\ removals \in 0..MaxRemovals /\ saves \in 0..MaxSaves /\ faults \in 0..MaxFaults

\* What a person saved last in a file is there, in a backup, or where a call has
\* moved it, whatever removals race with it, fail or die: the rename that puts a
\* file back over another is the only step that loses a text.
EverySaveIsKept ==
  \A f \in Files : saved[f] # 0 =>
    \/ file[f].text = saved[f]
    \/ <<f, saved[f]>> \in kept
    \/ \E p \in Processes : /\ process[p].held # Nothing
                            /\ Current(p) = f /\ process[p].held.text = saved[f]

\* A removal takes away what the preview that was confirmed has shown, and
\* nothing that came later, although files are read twice and changed much later.
RemovedAsConfirmed ==
  [][\A p \in Processes :
       At(p, "finish") /\ process'[p].changed # process[p].changed =>
         process[p].held = confirmation[process[p].token].digest[Current(p)]]_vars

\* A person's own file is, or was, in the place of the second contract.
ForeignCompatibility(p) ==
  \/ process[p].plan["compatibility"].form = "foreign"
  \/ file["compatibility"] \notin {Nothing, process[p].plan["compatibility"]}

GivesUp(p) ==
  /\ ~At(p, "idle") /\ ~At(p, "complete")
  /\ process'[p] = NoCall /\ faults' = faults

\* A removal that gives up has put back each contract it had removed, unless a
\* person's file was in the place of the second one.
FailureIsUndone ==
  [][\A p \in Processes : GivesUp(p) =>
       \/ ForeignCompatibility(p)
       \/ \A f \in process[p].changed : file'[f] # Nothing]_vars

\* The same without the exception: violated when the configuration is malformed
\* and the second contract is a person's own, since undoing stops at that one.
FailureIsAlwaysUndone ==
  [][\A p \in Processes : GivesUp(p) =>
       \A f \in process[p].changed : file'[f] # Nothing]_vars

\* No step overwrites a file that is in its place ("without overwriting unrelated
\* configuration"): violated by two saves during one removal.
NeverOverwritten ==
  [][\A f \in Files : saves' = saves /\ file[f] # Nothing /\ file'[f] # file[f] =>
       \E p \in Processes : At(p, "displace")]_vars

=============================================================================
