---------------------------- MODULE PropertyPage ----------------------------
(***************************************************************************)
(* The "General information" form of PropertyDetailPage, opened in several *)
(* tabs: the query ['property', id] loads the property with its photos and *)
(* reviews, an effect copies what it loaded over the form whenever any of  *)
(* it is new, and a save sends every field of the form.                    *)
(***************************************************************************)
EXTENDS Integers, Sequences, SequencesExt

CONSTANTS
    FormTabs,  \* tabs that show the property
    Fields,    \* title, address, description
    Values,    \* what may stand in a field
    MaxWrites  \* bound: saves sent, and writes by others

ASSUME FormAssumption == MaxWrites \in Nat

VARIABLES
    property, \* the server's row: its fields, and a stamp for all the rest
    tab,      \* each tab's query data, form and requests
    typed,    \* history: fields typed since the form was last filled
    writes    \* so far

formVars == <<property, tab, typed, writes>>

NewProperty == [fields |-> [f \in Fields |-> CHOOSE v \in Values : TRUE], stamp |-> 0]

FormInit ==
    /\ property = NewProperty
    /\ tab = [t \in FormTabs |-> [data |-> NewProperty, form |-> NewProperty.fields, read |-> "idle", seen |-> NewProperty,
                                  save |-> "idle", sent |-> NewProperty, changed |-> {}]]
    /\ typed = [t \in FormTabs |-> {}]
    /\ writes = 0

-----------------------------------------------------------------------------

Type(t, f, v) ==
    /\ tab[t].form[f] # v
    /\ tab' = [tab EXCEPT ![t].form[f] = v]
    /\ typed' = [typed EXCEPT ![t] = @ \cup {f}]
    /\ UNCHANGED <<property, writes>>

(* The window is focused.                                                  *)
ReadAgain(t) ==
    /\ tab[t].read = "idle"
    /\ tab' = [tab EXCEPT ![t].read = "sent"]
    /\ UNCHANGED <<property, typed, writes>>

ServeRead(t) ==
    /\ tab[t].read = "sent"
    /\ tab' = [tab EXCEPT ![t].read = "ok", ![t].seen = property]
    /\ UNCHANGED <<property, typed, writes>>

FillsFault(t) == tab[t].seen # tab[t].data /\ typed[t] = {}

(* Equal data is the old object, and no effect runs.                       *)
Fills(t) == tab[t].seen # tab[t].data

ReceiveProperty(t) ==
    /\ tab[t].read = "ok"
    /\ tab' = [tab EXCEPT ![t].read = "idle", ![t].data = tab[t].seen,
                          ![t].seen = NewProperty,
                          ![t].form = IF Fills(t) THEN tab[t].seen.fields ELSE @]
    /\ typed' = IF Fills(t) THEN [typed EXCEPT ![t] = {}] ELSE typed
    /\ UNCHANGED <<property, writes>>

(* handleUpdate: the three fields, whatever was typed.                     *)
SaveForm(t) ==
    /\ tab[t].save = "idle"
    /\ writes < MaxWrites
    /\ writes' = writes + 1
    /\ tab' = [tab EXCEPT ![t].save = "sent", ![t].changed = typed[t],
                          ![t].sent = [fields |-> tab[t].form, stamp |-> tab[t].data.stamp]]
    /\ UNCHANGED <<property, typed>>

(* updateProperty; @updatedAt is part of the row.                          *)
ServeSave(t) ==
    /\ tab[t].save = "sent"
    /\ property' = [fields |-> tab[t].sent.fields, stamp |-> property.stamp + 1]
    /\ tab' = [tab EXCEPT ![t].save = "ok", ![t].sent = NewProperty, ![t].changed = {}]
    /\ UNCHANGED <<typed, writes>>

(* onSuccess invalidates the query: a read under way starts again.         *)
Saved(t) ==
    /\ tab[t].save = "ok"
    /\ tab' = [tab EXCEPT ![t].save = "idle", ![t].read = "sent"]
    /\ UNCHANGED <<property, typed, writes>>

(* A read fails, or a save, which may have been served.                    *)
FormRequestFails(t) ==
    /\ \/ tab[t].read # "idle" /\ tab' = [tab EXCEPT ![t].read = "idle", ![t].seen = NewProperty]
       \/ tab[t].save # "idle" /\ tab' = [tab EXCEPT ![t].save = "idle", ![t].sent = NewProperty, ![t].changed = {}]
    /\ UNCHANGED <<property, typed, writes>>

(* Elsewhere a field is saved, or a guest writes a review: its row and the *)
(* rating are part of the data.                                            *)
OthersWrite ==
    /\ writes < MaxWrites
    /\ writes' = writes + 1
    /\ \E f \in Fields, v \in Values :
          property' = [fields |-> [property.fields EXCEPT ![f] = v], stamp |-> property.stamp + 1]
    /\ UNCHANGED <<tab, typed>>

FormNext ==
    \/ OthersWrite
    \/ \E t \in FormTabs :
          \/ \E f \in Fields, v \in Values : Type(t, f, v)
          \/ ReadAgain(t) \/ ServeRead(t) \/ ReceiveProperty(t)
          \/ SaveForm(t) \/ ServeSave(t) \/ Saved(t) \/ FormRequestFails(t)

FormSpec == FormInit /\ [][FormNext]_formVars

-----------------------------------------------------------------------------

(* Two tabs never undo each other's field: a save changes a field that its *)
(* user did not type only if the property was written after the tab loaded *)
(* it.  It needs that the form follows every read: were typed text kept    *)
(* over a read, the fields beside it would be older than the tab's data.   *)
SavesOnlyTyped ==
    [][\A t \in FormTabs : tab[t].save = "sent" /\ tab'[t].save = "ok" =>
          \A f \in Fields : property'.fields[f] # property.fields[f] =>
             f \in tab[t].changed \/ tab[t].sent.stamp # property.stamp]_formVars

-----------------------------------------------------------------------------

(***************************************************************************)
(* The availability panel of PropertyDetailPage: whenever the range of the *)
(* two date inputs changes, an effect fetches the calendar of the range    *)
(* and shows what it receives.  A fetch is never cancelled, so the answers *)
(* may come in another order than the ranges were entered.  The calendar   *)
(* form below posts its days and fetches again.                            *)
(***************************************************************************)
CONSTANTS
    Ranges,      \* ranges the host may enter
    MaxInputs,   \* bound: changes of the range, refreshes and posts
    MaxFailures  \* bound: requests that fail

ASSUME PanelAssumption == MaxInputs \in Nat /\ MaxFailures \in Nat

VARIABLES
    range,    \* availabilityRange
    calendar, \* the server's calendar, as a version
    asked,    \* fetches under way, oldest first
    onScreen,    \* the range and the version of availability
    loading,  \* availabilityStatus
    posting,  \* upsertMutation
    mine,     \* the version of this host's last successful post
    inputs, failures, \* so far
    overtaken   \* history: the newest fetch ended before an older one

calendarVars == <<range, calendar, asked, onScreen, loading, posting, mine, inputs, failures, overtaken>>

NewFetch(r) == [range |-> r, at |-> "sent", seen |-> 0]

CalendarInit ==
    /\ range \in Ranges
    /\ calendar = 0
    /\ asked = <<NewFetch(range)>>
    /\ onScreen = [range |-> "none", seen |-> 0]
    /\ loading = "loading"
    /\ posting = "idle"
    /\ mine = 0
    /\ inputs = 0 /\ failures = 0
    /\ overtaken = FALSE

-----------------------------------------------------------------------------

Input == inputs < MaxInputs /\ inputs' = inputs + 1
Failure == failures < MaxFailures /\ failures' = failures + 1

FetchFault(r) ==
    /\ asked' = Append(asked, NewFetch(range))
    /\ loading' = "loading"
    /\ overtaken' = FALSE

(* fetchAvailability of the render that has r.                             *)
Fetch(r) ==
    /\ asked' = Append(asked, NewFetch(r))
    /\ loading' = "loading"
    /\ overtaken' = FALSE

ChangeRange(r) ==
    /\ r # range
    /\ Input
    /\ range' = r
    /\ Fetch(r)
    /\ UNCHANGED <<calendar, onScreen, posting, mine, failures>>

(* The refresh button is disabled while the panel loads.                   *)
Refresh ==
    /\ loading # "loading"
    /\ Input
    /\ Fetch(range)
    /\ UNCHANGED <<range, calendar, onScreen, posting, mine, failures>>

ServeCalendar(i) ==
    /\ asked[i].at = "sent"
    /\ asked' = [asked EXCEPT ![i].at = "ok", ![i].seen = calendar]
    /\ UNCHANGED <<range, calendar, onScreen, loading, posting, mine, inputs, failures, overtaken>>

FetchEnds(i) ==
    /\ asked' = RemoveAt(asked, i)
    /\ overtaken' = (overtaken \/ (i = Len(asked) /\ i > 1))

ReceiveCalendar(i) ==
    /\ asked[i].at = "ok"
    /\ onScreen' = [range |-> asked[i].range, seen |-> asked[i].seen]
    /\ loading' = "success"
    /\ FetchEnds(i)
    /\ UNCHANGED <<range, calendar, posting, mine, inputs, failures>>

CalendarFails(i) ==
    /\ Failure
    /\ loading' = "error"
    /\ FetchEnds(i)
    /\ UNCHANGED <<range, calendar, onScreen, posting, mine, inputs>>

(* The calendar form; its button is disabled while a post is pending.      *)
PostDays ==
    /\ posting = "idle"
    /\ Input
    /\ posting' = "sent"
    /\ UNCHANGED <<range, calendar, asked, onScreen, loading, mine, failures, overtaken>>

ServePost ==
    /\ posting = "sent"
    /\ calendar' = calendar + 1
    /\ posting' = "ok"
    /\ UNCHANGED <<range, asked, onScreen, loading, mine, inputs, failures, overtaken>>

PostedFault ==
    /\ posting = "ok"
    /\ posting' = "idle"
    /\ mine' = calendar
    /\ UNCHANGED <<range, calendar, asked, onScreen, loading, inputs, failures, overtaken>>

(* onSuccess clears the form and calls fetchAvailability.                  *)
Posted ==
    /\ posting = "ok"
    /\ posting' = "idle"
    /\ mine' = calendar
    /\ Fetch(range)
    /\ UNCHANGED <<range, calendar, onScreen, inputs, failures>>

(* onError, though the days may have been written.                         *)
PostFails ==
    /\ posting # "idle"
    /\ Failure
    /\ posting' = "idle"
    /\ UNCHANGED <<range, calendar, asked, onScreen, loading, mine, inputs, overtaken>>

CalendarNext ==
    \/ \E r \in Ranges : ChangeRange(r)
    \/ Refresh
    \/ \E i \in DOMAIN asked : ServeCalendar(i) \/ ReceiveCalendar(i) \/ CalendarFails(i)
    \/ PostDays \/ ServePost \/ Posted \/ PostFails

CalendarSpec == CalendarInit /\ [][CalendarNext]_calendarVars

-----------------------------------------------------------------------------

(* When no fetch is under way and the panel reports success, it shows the  *)
(* calendar of the range in its inputs, with everything this host has      *)
(* posted, unless the answer to an older fetch came after the newest.      *)
ShowsTheRange ==
    asked = <<>> /\ loading = "success" =>
       overtaken \/ (onScreen.range = range /\ onScreen.seen >= mine)
=============================================================================
