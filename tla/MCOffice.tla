------------------------------ MODULE MCOffice -------------------------------
(* The records of the office in one run: its visits, their reminders, the       *)
(* marketplace, the rows of a tenant, its stages, and its imports.  They share no *)
(* state, so a behaviour is one of one part; the others stay where they began.    *)
EXTENDS VisitCalendar, VisitReminders, MeliSync, TenantRecords, LeadStages, LeadImport, TLC

CONSTANTS p1, p2, k1, k2,     \* the values the parts are symmetric in
          s1, t1              \* a stage and its key, for the parts without stages

VARIABLE part
officeVars == <<part, calendarVars, reminderVars, meliVars, recordVars, stageVars, importVars>>

Line(named, phone, email) == [named |-> named, phone |-> phone, email |-> email]
\* a contact that comes again by each of its two ways, an empty row, and one with only a name
FiveRows == <<Line(TRUE, "p1", "e1"), Line(TRUE, "none", "e1"), Line(FALSE, "p1", "e2"),
              Line(FALSE, "none", "none"), Line(TRUE, "none", "none")>>
Symmetry == Permutations({p1, p2}) \cup Permutations({k1, k2})

\* a part that may begin in several states
Quiet(name, settled) == part # name => settled
OfficeInit ==
  /\ part \in {"calendar", "reminders", "meli", "records", "stages", "import"}
  /\ CalendarInit
  /\ Quiet("reminders", due = [v \in Booked |-> Window] /\ wants = [v \in Booked |-> FALSE]) /\ ReminderInit
  /\ Quiet("meli", namesake = Nobody) /\ MeliInit
  /\ Quiet("records", table = "users" /\ planOf = "STARTER") /\ RecordInit
  /\ Quiet("stages", stage = [i \in StageIds |-> [at |-> IF i = s1 THEN "there" ELSE "unborn", key |-> t1,
                                                  order |-> 0, default |-> i = s1]]) /\ StageInit
  /\ Quiet("import", imports = [i \in Importers |-> NoImport(TRUE)]) /\ ImportInit
OfficeNext ==
  \/ part = "calendar" /\ CalendarNext /\ UNCHANGED <<part, reminderVars, meliVars, recordVars, stageVars, importVars>>
  \/ part = "reminders" /\ ReminderNext /\ UNCHANGED <<part, calendarVars, meliVars, recordVars, stageVars, importVars>>
  \/ part = "meli" /\ MeliNext /\ UNCHANGED <<part, calendarVars, reminderVars, recordVars, stageVars, importVars>>
  \/ part = "records" /\ RecordNext /\ UNCHANGED <<part, calendarVars, reminderVars, meliVars, stageVars, importVars>>
  \/ part = "stages" /\ StageNext /\ UNCHANGED <<part, calendarVars, reminderVars, meliVars, recordVars, importVars>>
  \/ part = "import" /\ ImportNext /\ UNCHANGED <<part, calendarVars, reminderVars, meliVars, recordVars, stageVars>>
OfficeSpec == OfficeInit /\ [][OfficeNext]_officeVars

OfficeTypeOK ==
  CASE part = "calendar" -> CalendarTypeOK
    [] part = "reminders" -> ReminderTypeOK
    [] part = "meli" -> MeliTypeOK
    [] part = "records" -> RecordTypeOK
    [] part = "stages" -> StageTypeOK
    [] part = "import" -> ImportTypeOK

\* What there is outside the database agrees with it: the events of a calendar, the reminders
\* that were sent, the connection to the marketplace and what was imported from it (EventAgrees,
\* BeforeTheVisit, RemindedOnce, StaysConnected, ImportIsRight).
OutsideAgrees ==
  /\ part = "calendar" => EventAgrees
  /\ part = "reminders" => BeforeTheVisit /\ RemindedOnce
  /\ part = "meli" => StaysConnected /\ ImportIsRight

\* Rows that requests look up before they write them stay unique, stages in order, and
\* leads imported once and counted as they are (KeysAreUnique, StagesAgree, ImportedOnce,
\* AnswerIsTrue, CountedIsAnnounced).
RecordsAgree ==
  /\ part = "records" => KeysAreUnique
  /\ part = "stages" => StagesAgree
  /\ part = "import" => ImportedOnce /\ AnswerIsTrue /\ CountedIsAnnounced

\* No step disconnects a calendar that works, passes the limit of a plan, or takes the stage
\* of a lead away (ConnectionIsKept, LimitIsKept, StageIsKept).
NothingIsLost == ConnectionIsKept /\ LimitIsKept /\ StageIsKept
=============================================================================
