---------------------------- MODULE MCAlgorithms ----------------------------
(* Four algorithms that share nothing, walked one at a time: while one runs,
   the other three keep one of their initial states. *)
EXTENDS AnswerCapture, Calendar, MCInjectionBudget, MemorySides, SequencesExt

VARIABLE running

(* Years 1839 to 2100 and, 2000 years before, around the year 0. *)
MCEras == {-5, 0}

(* Up to six words, accented letters, spaces, line ends, stops, bullets and
   fences. *)
MCPieces == {<<"letter", "letter", "letter", "letter">>, <<"lead", "rest">>,
             <<"space">>, <<"newline">>, <<"stop">>, <<"bullet">>,
             <<"tick", "tick", "tick">>}
MCTexts == {FlattenSeq(pieces) : pieces \in BoundedSeq(MCPieces, 6)}

RestingCapture ==
    /\ request = CHOOSE r \in Request : TRUE
    /\ texts = {} /\ at = "received" /\ got = 0 /\ parsed = 0 /\ captured = {}
    /\ status = "none" /\ saved = {} /\ enqueued = FALSE /\ cuts = {}
RestingCalendar == today = 0 /\ date = [year |-> 1970, month |-> 1, day |-> 1]
                   /\ weekday = 3
RestingBudget == /\ cfg = CHOOSE c \in Options : TRUE
                 /\ plan = NoPlan /\ block = NoBlock
RestingSides == /\ text = <<>> /\ chars = 1 /\ units = {} /\ usable = {}
                /\ ranked = {} /\ chosen = {} /\ sideAt = "given"

AlgorithmsInit ==
    \/ running = "capture" /\ CaptureInit /\ RestingCalendar /\ RestingBudget
                                          /\ RestingSides
    \/ running = "calendar" /\ CalendarInit /\ RestingCapture /\ RestingBudget
                                            /\ RestingSides
    \/ running = "budget" /\ BudgetInit /\ RestingCapture /\ RestingCalendar
                                        /\ RestingSides
    \/ running = "sides" /\ SidesInit /\ RestingCapture /\ RestingCalendar
                                      /\ RestingBudget

AlgorithmsNext ==
    /\ UNCHANGED running
    /\ \/ /\ running = "capture" /\ CaptureNext
          /\ UNCHANGED <<calendarVars, budgetVars, sideVars>>
       \/ /\ running = "calendar" /\ CalendarNext
          /\ UNCHANGED <<captureVars, budgetVars, sideVars>>
       \/ /\ running = "budget" /\ BudgetNext
          /\ UNCHANGED <<captureVars, calendarVars, sideVars>>
       \/ /\ running = "sides" /\ SidesNext
          /\ UNCHANGED <<captureVars, calendarVars, budgetVars>>

AlgorithmsSpec ==
    AlgorithmsInit
    /\ [][AlgorithmsNext]_<<running, captureVars, calendarVars, budgetVars,
                            sideVars>>
=============================================================================
