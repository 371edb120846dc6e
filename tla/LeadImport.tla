------------------------------ MODULE LeadImport ------------------------------
(* Leads that come in bulk: files imported by users, a chunk of rows at a time,  *)
(* compared with the leads there were when the import began; and requests of     *)
(* other systems to the inbound webhook, which compares nothing.  Users import a  *)
(* file again, and systems repeat a request, when they were answered an error.    *)
EXTENDS Integers, Sequences, FiniteSets

CONSTANTS Importers,       \* requests of users to import the file
          FileRows,        \* the rows of the file: [named, phone, email]
          NoContact,       \* no phone, or no e-mail
          ChunkSize,       \* bound: rows written by one statement, 100 in the code
          MaxHookCalls,    \* bound: requests to the webhook
          MaxImportFaults  \* bound: failures

ASSUME ImportAssumption ==
  /\ ChunkSize \in Nat \ {0} /\ MaxHookCalls \in Nat /\ MaxImportFaults \in Nat
  /\ FileRows # <<>> /\ FileRows \in Seq({FileRows[n] : n \in DOMAIN FileRows})
  /\ \A n \in DOMAIN FileRows : FileRows[n].named \in BOOLEAN
  /\ "webhook" \notin Importers

VARIABLES
  known,        \* the leads, in the order they were created: [phone, email, by, agent, announced, assigned]
  imports,      \* importer -> [step, dedup, next, phones, emails, created, skipped, failed]
  inbound,      \* the request to the webhook: [step, lead, agent]
  counted,      \* the leads the webhook has answered as created
  importRaced,  \* a lead was created by others while an import went on
  hookCalls, importFaults

importVars == <<known, imports, inbound, counted, importRaced, hookCalls, importFaults>>

-----------------------------------------------------------------------------

\* the page always asks for dedup; the API leaves it to the caller
NoImport(dedup) ==
  [step |-> "idle", dedup |-> dedup, next |-> 1, phones |-> {}, emails |-> {}, created |-> 0, skipped |-> 0, failed |-> {}]
NoHook == [step |-> "idle", lead |-> 0, agent |-> FALSE]
NewLead(row, by, agent) ==
  [phone |-> row.phone, email |-> row.email, by |-> by, agent |-> agent, announced |-> FALSE, assigned |-> FALSE]
Running == {i \in Importers : imports[i].step = "running"}
HasData(row) == row.named \/ {row.phone, row.email} # {NoContact}
LeadsBy(who) == {n \in DOMAIN known : known[n].by = who}

ImportInit ==
  /\ known = <<>> /\ imports \in [Importers -> {NoImport(dedup) : dedup \in BOOLEAN}] /\ inbound = NoHook
  /\ counted = {} /\ importRaced = FALSE /\ hookCalls = 0 /\ importFaults = 0

ImportFault == importFaults < MaxImportFaults /\ importFaults' = importFaults + 1

\* the phones and e-mails of the leads are read once
BeginImport(i) ==
  /\ imports[i].step \in {"idle", "threw"}
  /\ imports' = [imports EXCEPT ![i] = [@ EXCEPT !.step = "running",
       !.phones = IF imports[i].dedup THEN {known[n].phone : n \in DOMAIN known} \ {NoContact} ELSE {},
       !.emails = IF imports[i].dedup THEN {known[n].email : n \in DOMAIN known} \ {NoContact} ELSE {}]]
  /\ UNCHANGED <<known, inbound, counted, importRaced, hookCalls, importFaults>>

\* one row: skipped without a name and a contact, or with a contact that is known; its contacts are known
\* from now on, also when the look-up of its stage fails afterwards (stop)
FileRow_SeenWhenWritten(run, row, stop) ==
  IF ~HasData(row) THEN [run EXCEPT !.skipped = @ + 1, !.failed = @ \cup {row}]
  ELSE IF run.dedup /\ (row.phone \in run.phones \/ row.email \in run.emails) THEN [run EXCEPT !.skipped = @ + 1]
  ELSE IF stop THEN [run EXCEPT !.skipped = @ + 1, !.failed = @ \cup {row}]
       ELSE [run EXCEPT !.chunk = Append(@, row)]
FileRow(run, row, stop) ==
  LET noted == IF ~run.dedup THEN run
               ELSE [run EXCEPT !.phones = @ \cup ({row.phone} \ {NoContact}), !.emails = @ \cup ({row.email} \ {NoContact})]
  IN IF ~HasData(row) THEN [run EXCEPT !.skipped = @ + 1, !.failed = @ \cup {row}]
     ELSE IF run.dedup /\ (row.phone \in run.phones \/ row.email \in run.emails) THEN [run EXCEPT !.skipped = @ + 1]
     ELSE IF stop THEN [noted EXCEPT !.skipped = @ + 1, !.failed = @ \cup {row}]
          ELSE [noted EXCEPT !.chunk = Append(@, row)]

Mapped(run, last, stopped) ==
  LET open == [step |-> run.step, dedup |-> run.dedup, next |-> last + 1, phones |-> run.phones, emails |-> run.emails,
               created |-> run.created, skipped |-> run.skipped, failed |-> run.failed, chunk |-> <<>>]
      upTo[n \in (run.next - 1)..last] ==
        IF n = run.next - 1 THEN open ELSE FileRow(upTo[n - 1], FileRows[n], n \in stopped)
  IN upTo[last]

Inserted(i, chunk) == known \o [n \in DOMAIN chunk |-> NewLead(chunk[n], i, FALSE)]
\* a chunk of rows is compared and written; a failure ends the import, written or not
ImportChunk(i, stopped, outcome) ==
  LET run == imports[i]
      last == IF run.next + ChunkSize - 1 < Len(FileRows) THEN run.next + ChunkSize - 1 ELSE Len(FileRows)
      m == Mapped(run, last, stopped)
      after == [step |-> m.step, dedup |-> m.dedup, next |-> m.next, phones |-> m.phones, emails |-> m.emails,
                created |-> m.created + Len(m.chunk), skipped |-> m.skipped, failed |-> m.failed]
  IN /\ run.step = "running" /\ run.next <= Len(FileRows) /\ stopped \subseteq run.next..last
     /\ IF stopped = {} /\ outcome = "ok" THEN UNCHANGED importFaults ELSE ImportFault
     /\ stopped # {} => outcome = "ok"
     /\ known' = IF outcome = "failed" THEN known ELSE Inserted(i, m.chunk)
     /\ imports' = [imports EXCEPT ![i] = IF outcome = "ok" THEN after ELSE [NoImport(imports[i].dedup) EXCEPT !.step = "threw"]]
     /\ importRaced' = (importRaced \/ (Running \ {i} # {} /\ known' # known))
     /\ UNCHANGED <<inbound, counted, hookCalls>>
\* the event is logged; when that fails the user is answered an error
EndImport(i, logged) ==
  /\ imports[i].step = "running" /\ imports[i].next > Len(FileRows)
  /\ IF logged THEN UNCHANGED importFaults ELSE ImportFault
  /\ imports' = [imports EXCEPT ![i] = IF logged THEN [@ EXCEPT !.step = "done", !.phones = {}, !.emails = {}]
                                       ELSE [NoImport(imports[i].dedup) EXCEPT !.step = "threw"]]
  /\ UNCHANGED <<known, inbound, counted, importRaced, hookCalls>>

-----------------------------------------------------------------------------
(* The inbound webhook, one item of a request at a time.                        *)

HookCreate(row, agent) ==
  /\ inbound.step = "idle" /\ hookCalls < MaxHookCalls /\ hookCalls' = hookCalls + 1
  /\ known' = Append(known, NewLead(row, "webhook", agent))
  /\ inbound' = [step |-> "created", lead |-> Len(known) + 1, agent |-> agent]
  /\ importRaced' = (importRaced \/ Running # {}) /\ UNCHANGED <<imports, counted, importFaults>>
\* log and announce, then announce the agent, each awaited
HookAnnounce ==
  /\ inbound.step = "created" /\ known' = [known EXCEPT ![inbound.lead].announced = TRUE]
  /\ inbound' = [inbound EXCEPT !.step = "announced"] /\ UNCHANGED <<imports, counted, importRaced, hookCalls, importFaults>>
ImportAnswers_Early(h) == h.step \in {"announced", "assigned"}
ImportAnswers(h) == h.step = (IF h.agent THEN "assigned" ELSE "announced")
HookAssigned ==
  /\ inbound.step = "announced" /\ inbound.agent /\ known' = [known EXCEPT ![inbound.lead].assigned = TRUE]
  /\ inbound' = [inbound EXCEPT !.step = "assigned"] /\ UNCHANGED <<imports, counted, importRaced, hookCalls, importFaults>>
HookAnswer ==
  /\ ImportAnswers(inbound) /\ counted' = counted \cup {inbound.lead} /\ inbound' = NoHook
  /\ UNCHANGED <<known, imports, importRaced, hookCalls, importFaults>>
\* an item that throws is counted as an error; its lead stays
HookThrows ==
  /\ inbound.step \in {"created", "announced"} /\ ImportFault /\ inbound' = NoHook
  /\ UNCHANGED <<known, imports, counted, importRaced, hookCalls>>

ImportNext ==
  \/ \E i \in Importers : BeginImport(i)
  \/ \E i \in Importers, stopped \in {{}} \cup {{n} : n \in DOMAIN FileRows}, outcome \in {"ok", "failed", "unanswered"} :
       ImportChunk(i, stopped, outcome)
  \/ \E i \in Importers, logged \in BOOLEAN : EndImport(i, logged)
  \/ \E agent \in BOOLEAN : HookCreate(FileRows[1], agent)
  \/ HookAnnounce \/ HookAssigned \/ HookAnswer \/ HookThrows

-----------------------------------------------------------------------------
(* Properties.                                                                  *)

ImportTypeOK ==
  /\ \A n \in DOMAIN known : known[n].by \in Importers \cup {"webhook"}
  /\ \A i \in Importers : imports[i].step \in {"idle", "running", "done", "threw"} /\ imports[i].next \in 1..(Len(FileRows) + 1)
  /\ inbound.lead \in 0..Len(known) /\ counted \subseteq DOMAIN known

Alike(x, y) == (x.phone = y.phone /\ x.phone # NoContact) \/ (x.email = y.email /\ x.email # NoContact)

\* An import creates no lead with the phone or e-mail of an earlier one, whether it failed and was made
\* again or not, unless others created leads meanwhile (import.service.ts:157).
ImportedOnce ==
  ~importRaced /\ (\A i \in Importers : imports[i].dedup) =>
    \A m, n \in DOMAIN known : m < n /\ known[n].by \in Importers => ~Alike(known[m], known[n])

\* What an import answers is true: each row was created, or is like a lead there is, or like a row it tells
\* of; and the numbers add up (import.service.ts:187).
AnswerIsTrue ==
  \A i \in Importers : imports[i].step = "done" =>
    /\ imports[i].created + imports[i].skipped = Len(FileRows)
    /\ imports[i].created <= Cardinality(LeadsBy(i))
    /\ \A r \in DOMAIN FileRows :
         \/ \E n \in DOMAIN known :
            Alike(known[n], FileRows[r]) \/ (known[n].by = i /\ FileRows[r].named /\ {known[n].phone, known[n].email} = {NoContact})
         \/ \E row \in imports[i].failed : row = FileRows[r] \/ Alike(row, FileRows[r])

\* A lead the webhook answered as created was announced, and so was its agent
\* (inbound-webhook.controller.ts:205).
CountedIsAnnounced ==
  \A n \in counted : known[n].announced /\ (known[n].agent => known[n].assigned)
=============================================================================
