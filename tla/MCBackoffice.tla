---------------------------- MODULE MCBackoffice ----------------------------
(* The back-office components in one instance for TLC. They share no state,   *)
(* so that interleaving them shows nothing: each behaviour picks a component, *)
(* or a part of one, and the others rest in an initial state.                 *)
EXTENDS CalendarAccess, SlotSearch, ConfirmSessions, ServiceCatalogue, PromptEdits,
        UsageMetering, IncidentAlerts, KnowledgeUploads, OperatorRegistration,
        OperatorChannel, ClientMaterials

CONSTANT Focus   \* the parts to be checked
VARIABLE focus

\* The working windows of a weekday, also out of order and overlapping, the date
\* exceptions of a rule, and the events of a calendar.
Timetables == {<<>>, << <<2, 4>>, <<0, 3>> >>, << <<0, 1>>, <<1, 4>> >>}
Closings == {{}, {1}}
Calendars == {{}, {<<1, 2>>}, {<<4, 5>>, <<6, 7>>}, {<<0, 3>>, <<9, 10>>}}

OneInquiry ==
  [now |-> 0, start |-> 0, lookahead |-> CHOOSE n \in Lookahead : TRUE,
   rule |-> CHOOSE r \in RawRule : r.service_days = {}, events |-> {}]

Init ==
  /\ focus \in Focus
  /\ CalendarInit /\ CatalogueInit /\ PromptInit /\ UsageInit /\ AlertInit
  /\ UploadInit /\ RegistrationInit /\ ChannelInit /\ MaterialInit
  /\ DialogInit({IF focus \in {"admin", "knowledge"} THEN focus ELSE "services"})
  /\ IF focus = "slots" THEN SlotInit
                        ELSE inquiry = OneInquiry /\ slotAnswer = NoAnswer

talkSide == <<calendarVars, slotVars, dialogVars, catalogueVars, promptVars>>
deskSide == <<usageVars, alertVars, uploadVars, registrationVars, channelVars, materialVars>>

ButCalendar == UNCHANGED <<focus, slotVars, dialogVars, catalogueVars, promptVars,
                   deskSide>>
ButSlot == UNCHANGED <<focus, calendarVars, dialogVars, catalogueVars, promptVars,
               deskSide>>
ButDialog == UNCHANGED <<focus, calendarVars, slotVars, catalogueVars, promptVars,
                 deskSide>>
ButCatalogue == UNCHANGED <<focus, calendarVars, slotVars, dialogVars, promptVars,
                    deskSide>>
ButPrompt == UNCHANGED <<focus, calendarVars, slotVars, dialogVars, catalogueVars,
                 deskSide>>
ButUsage == UNCHANGED <<focus, talkSide, alertVars, uploadVars, registrationVars,
                channelVars, materialVars>>
ButAlert == UNCHANGED <<focus, talkSide, usageVars, uploadVars, registrationVars,
                channelVars, materialVars>>
ButUpload == UNCHANGED <<focus, talkSide, usageVars, alertVars, registrationVars,
                 channelVars, materialVars>>
ButRegistration == UNCHANGED <<focus, talkSide, usageVars, alertVars, uploadVars,
                       channelVars, materialVars>>
ButChannel == UNCHANGED <<focus, talkSide, usageVars, alertVars, uploadVars,
                  registrationVars, materialVars>>
ButMaterial == UNCHANGED <<focus, talkSide, usageVars, alertVars, uploadVars,
                   registrationVars, channelVars>>

Next ==
  \/ focus = "consent" /\ CalendarStep({}, {"clear"}, Callback) /\ ButCalendar
  \/ focus = "tokens" /\ CalendarStep(Asker, {"clear"}, {"c1"}) /\ ButCalendar
  \/ focus = "clarify" /\ CalendarStep({"a1"}, {"clear", "unclear"}, {"c1"}) /\ ButCalendar
  \/ focus = "slots" /\ AnswerInquiry /\ ButSlot
  \/ focus = "authors" /\ DialogStep(Author, {"r1"}) /\ ButDialog
  \/ focus \in {"services", "admin", "knowledge"} /\ DialogStep({"@a"}, Request) /\ ButDialog
  \/ focus = "schedule" /\ ScheduledNext /\ ButCatalogue
  \/ focus = "offers" /\ OfferedNext /\ ButCatalogue
  \/ focus = "prompts" /\ PromptNext /\ ButPrompt
  \/ focus = "usage" /\ UsageNext /\ ButUsage
  \/ focus = "alerts" /\ AlertNext /\ ButAlert
  \/ focus = "uploads" /\ UploadStep(OpFile, {}) /\ ButUpload
  \/ focus = "moderation" /\ UploadStep({}, Moderator) /\ ButUpload
  \/ focus = "registration" /\ RegistrationNext /\ ButRegistration
  \/ focus = "channel" /\ ChannelNext /\ ButChannel
  \/ focus = "materials" /\ MaterialNext /\ ButMaterial

vars == <<focus, talkSide, deskSide>>

\* What is not in focus never changes, and need not be compared.
View ==
  CASE focus \in {"consent", "tokens", "clarify"} -> <<focus, calendarVars>>
    [] focus = "slots" -> <<focus, slotVars>>
    [] focus \in {"services", "authors", "admin", "knowledge"} -> <<focus, dialogVars>>
    [] focus \in {"schedule", "offers"} -> <<focus, catalogueVars>>
    [] focus = "prompts" -> <<focus, promptVars>>
    [] focus = "usage" -> <<focus, usageVars>>
    [] focus = "alerts" -> <<focus, alertVars>>
    [] focus \in {"uploads", "moderation"} -> <<focus, uploadVars>>
    [] focus = "registration" -> <<focus, registrationVars>>
    [] focus = "channel" -> <<focus, channelVars>>
    [] focus = "materials" -> <<focus, materialVars>>

Spec == Init /\ [][Next]_vars
=============================================================================
