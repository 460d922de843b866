----------------------------- MODULE WeatherApi -----------------------------
(***************************************************************************)
(* The handlers of weather-api/api/main.py.                                *)
(* Flask serves every request on a thread of its own; a handler opens a    *)
(* connection per statement, so the two statements of add_city and         *)
(* add_temp are not one transaction.  Requests with a malformed body are   *)
(* refused before the database is asked and are stuttering steps.          *)
(* The connection may be lost while a statement is under way: then the     *)
(* helper returns -1, whether the statement took effect or not.            *)
(***************************************************************************)
EXTENDS Database

CONSTANTS
  Threads,    \* bound: requests served at the same time
  MayFail,    \* whether connections to the database get lost
  Windows     \* bound: the dates asked for, <<from, until>>; 0 is not given

ASSUME MayFail \in BOOLEAN

VARIABLES
  pending,    \* by thread: the row it is about to insert, after its check
  answer,     \* the answer this step gave, if any: operation, row, status code
  acked       \* history: <<table, id>> of every id answered with 201

vars == <<dbVars, pending, answer, acked>>

NoRow == [op |-> "none"]
Pending == {NoRow}
           \cup [op : {"add_city"}, idTara : RowIds, nume : CityNames]
           \cup [op : {"add_temp"}, idOras : RowIds]

Answer(op, row, code) == [op |-> op, row |-> row, code |-> code, lost |-> FALSE]
NoAnswer == Answer("none", NoRow, 0)

TypeOK ==
  /\ DbTypeOK
  /\ pending \in [Threads -> Pending]
  /\ answer.code \in {0, 200, 201, 404, 409, 500}
  /\ acked \subseteq Tables \X RowIds

Init ==
  /\ DbInit
  /\ pending = [w \in Threads |-> NoRow]
  /\ answer = NoAnswer
  /\ acked = {}

Idle(w) == pending[w] = NoRow

Write(t, o, m) == tari' = t /\ orase' = o /\ temperaturi' = m

(* One statement that would turn the tables into t, o and m: the handler   *)
(* answers good if it is executed, bad if the helper returned -1.          *)
Execute(t, o, m, good, bad) ==
  LET accepted == Consistent(t, o, m)
  IN \/ /\ accepted
        /\ Write(t, o, m)
        /\ answer' = good
     \/ /\ ~accepted
        /\ UNCHANGED <<tari, orase, temperaturi>>
        /\ answer' = bad
     \/ /\ MayFail
        /\ \/ UNCHANGED <<tari, orase, temperaturi>>
           \/ accepted /\ Write(t, o, m)
        /\ answer' = [bad EXCEPT !.lost = TRUE]

Acknowledge(t, id) == acked' = IF answer'.code = 201 THEN acked \cup {<<t, id>>} ELSE acked
-----------------------------------------------------------------------------
add_country(w) ==
  /\ Idle(w)
  /\ TakesId("tari")
  /\ \E nume \in CountryNames :
       LET row == [id |-> NewId("tari"), nume |-> nume]
       IN Execute(tari \cup {row}, orase, temperaturi,
                  Answer("add_country", row, 201), Answer("add_country", row, 409))
  /\ Acknowledge("tari", NewId("tari"))
  /\ UNCHANGED <<clock, pending>>

(* check_country_id: -1 if there is no such country, or on any error.      *)
add_city(w) ==
  /\ Idle(w)
  /\ \E idTara \in RowIds, nume \in CityNames :
       LET refused == Answer("add_city", [idTara |-> idTara, nume |-> nume], 404)
       IN \/ /\ idTara \in IdsOf(tari)
             /\ pending' = [pending EXCEPT
                              ![w] = [op |-> "add_city", idTara |-> idTara, nume |-> nume]]
             /\ answer' = NoAnswer
          \/ /\ idTara \notin IdsOf(tari)
             /\ answer' = refused
             /\ UNCHANGED pending
          \/ /\ MayFail
             /\ answer' = [refused EXCEPT !.lost = TRUE]
             /\ UNCHANGED pending
  /\ UNCHANGED <<dbVars, acked>>

insert_city(w) ==
  /\ pending[w].op = "add_city"
  /\ TakesId("orase")
  /\ LET row == [id |-> NewId("orase"), idTara |-> pending[w].idTara, nume |-> pending[w].nume]
     IN Execute(tari, orase \cup {row}, temperaturi,
                Answer("add_city", row, 201), Answer("add_city", row, 409))
  /\ Acknowledge("orase", NewId("orase"))
  /\ pending' = [pending EXCEPT ![w] = NoRow]
  /\ UNCHANGED clock

add_temp(w) ==
  /\ Idle(w)
  /\ \E idOras \in RowIds :
       LET refused == Answer("add_temp", [idOras |-> idOras], 404)
       IN \/ /\ idOras \in IdsOf(orase)
             /\ pending' = [pending EXCEPT ![w] = [op |-> "add_temp", idOras |-> idOras]]
             /\ answer' = NoAnswer
          \/ /\ idOras \notin IdsOf(orase)
             /\ answer' = refused
             /\ UNCHANGED pending
          \/ /\ MayFail
             /\ answer' = [refused EXCEPT !.lost = TRUE]
             /\ UNCHANGED pending
  /\ UNCHANGED <<dbVars, acked>>

insert_temp(w) ==
  /\ pending[w].op = "add_temp"
  /\ TakesId("temperaturi")
  /\ LET row == [id |-> NewId("temperaturi"), idOras |-> pending[w].idOras,
                 timestamp |-> clock]
     IN Execute(tari, orase, temperaturi \cup {row},
                Answer("add_temp", row, 201), Answer("add_temp", row, 409))
  /\ Acknowledge("temperaturi", NewId("temperaturi"))
  /\ pending' = [pending EXCEPT ![w] = NoRow]
  /\ UNCHANGED clock
-----------------------------------------------------------------------------
(* PUT: no row updated is 404, a constraint broken is 409, and 404 for a   *)
(* temperature.                                                            *)
Replace(rows, row) == {r \in rows : r.id # row.id} \cup {row}

MissingUnnoticed(rows, op, row) ==
  /\ row.id \notin IdsOf(rows)
  /\ answer' = Answer(op, row, 200)
  /\ UNCHANGED <<tari, orase, temperaturi>>

Missing(rows, op, row) ==
  /\ row.id \notin IdsOf(rows)
  /\ answer' = Answer(op, row, 404)
  /\ UNCHANGED <<tari, orase, temperaturi>>

modify_country(w) ==
  /\ Idle(w)
  /\ \E row \in Tari :
       \/ Missing(tari, "modify_country", row)
       \/ /\ row.id \in IdsOf(tari)
          /\ Execute(Replace(tari, row), orase, temperaturi,
                     Answer("modify_country", row, 200), Answer("modify_country", row, 409))
  /\ UNCHANGED <<serial, clock, pending, acked>>

modify_cityOrAdd(w) ==
  /\ Idle(w)
  /\ \E row \in Orase :
       Execute(tari, Replace(orase, row), temperaturi,
               Answer("modify_city", row, 200), Answer("modify_city", row, 409))
  /\ UNCHANGED <<serial, clock, pending, acked>>

modify_city(w) ==
  /\ Idle(w)
  /\ \E row \in Orase :
       \/ Missing(orase, "modify_city", row)
       \/ /\ row.id \in IdsOf(orase)
          /\ Execute(tari, Replace(orase, row), temperaturi,
                     Answer("modify_city", row, 200), Answer("modify_city", row, 409))
  /\ UNCHANGED <<serial, clock, pending, acked>>

modify_temp(w) ==
  /\ Idle(w)
  /\ \E old \in Temperaturi, idOras \in RowIds :
       LET row == [old EXCEPT !.idOras = idOras]
       IN \/ old.timestamp = clock /\ Missing(temperaturi, "modify_temp", row)
          \/ /\ old \in temperaturi
             /\ Execute(tari, orase, Replace(temperaturi, row),
                        Answer("modify_temp", row, 200), Answer("modify_temp", row, 404))
  /\ UNCHANGED <<serial, clock, pending, acked>>
-----------------------------------------------------------------------------
(* DELETE: 404 if no row was deleted; -1, an error, is answered with 200.  *)
Without(rows, id) == {r \in rows : r.id # id}

DeleteFrom(rows, op, id, t, o) ==
  LET done == Answer(op, [id |-> id], 200)
  IN \/ /\ id \notin IdsOf(rows)
        /\ answer' = Answer(op, [id |-> id], 404)
        /\ UNCHANGED <<tari, orase, temperaturi>>
     \/ /\ id \in IdsOf(rows)
        /\ Execute(t, OraseLeft(t, o), TemperaturiLeft(OraseLeft(t, o), temperaturi),
                   done, done)

delete_country(w) ==
  /\ Idle(w)
  /\ \E id \in RowIds : DeleteFrom(tari, "delete_country", id, Without(tari, id), orase)
  /\ UNCHANGED <<serial, clock, pending, acked>>

delete_cityByCountry(w) ==
  /\ Idle(w)
  /\ \E id \in RowIds :
       DeleteFrom(orase, "delete_city", id, tari, {r \in orase : r.idTara # id})
  /\ UNCHANGED <<serial, clock, pending, acked>>

delete_city(w) ==
  /\ Idle(w)
  /\ \E id \in RowIds : DeleteFrom(orase, "delete_city", id, tari, Without(orase, id))
  /\ UNCHANGED <<serial, clock, pending, acked>>

delete_temp(w) ==
  /\ Idle(w)
  /\ \E id \in RowIds :
       \/ /\ id \notin IdsOf(temperaturi)
          /\ answer' = Answer("delete_temp", [id |-> id], 404)
          /\ UNCHANGED <<tari, orase, temperaturi>>
       \/ /\ id \in IdsOf(temperaturi)
          /\ Execute(tari, orase, Without(temperaturi, id),
                     Answer("delete_temp", [id |-> id], 200),
                     Answer("delete_temp", [id |-> id], 200))
  /\ UNCHANGED <<serial, clock, pending, acked>>
-----------------------------------------------------------------------------
(* GET.  Each is one statement, and its answer the rows, which are left in *)
(* the order of their ids.  An error is a 500, but of readings an empty    *)
(* list: also for a coordinate or a date that is none.  The readings       *)
(* listed depend on what the request asks for: listings has them all.      *)
Lists(op, rows) ==
  \/ answer' = Answer(op, rows, 200)
  \/ MayFail /\ answer' = [Answer(op, {}, 500) EXCEPT !.lost = TRUE]

ListsReadings(op, listings) ==
  \/ \E rows \in listings : answer' = Answer(op, rows, 200)
  \/ answer' = [Answer(op, {}, 200) EXCEPT !.lost = TRUE]

get_countries == Lists("get_countries", tari)
get_cities_all == Lists("get_cities_all", orase)

(* A string is added to the list of rows, which is a TypeError.            *)
get_cities_from_country == answer' = Answer("get_cities_from_country", {}, 500)

(* The readings of the dates given, or from 2020 until now.                *)
Within(window) ==
  LET until == IF window[2] = 0 THEN clock ELSE window[2]
  IN  {r \in temperaturi : r.timestamp >= window[1] /\ r.timestamp <= until}

(* inner join orase; near is where lat and lon are those given, if any.    *)
ReadingsNear(near, window) ==
  {r \in Within(window) : \E o \in near : o.id = r.idOras}

ReadingsOfCity(id, window) == ReadingsNear({o \in orase : o.id = id}, window)

ReadingsOfCountryByCityId(id, window) ==
  {r \in Within(window) : \E o \in orase, t \in tari :
                             r.idOras = o.id /\ t.id = o.id /\ t.id = id}

ReadingsOfCountry(id, window) ==
  {r \in Within(window) : \E o \in orase, t \in tari :
                             r.idOras = o.id /\ t.id = o.idTara /\ t.id = id}

get_temps ==
  ListsReadings("get_temps",
    {Within(window) : window \in Windows}
    \cup {ReadingsNear(near, window) : near \in SUBSET orase, window \in Windows})

get_temps_for_city ==
  ListsReadings("get_temps_for_city",
                {ReadingsOfCity(id, window) : id \in RowIds, window \in Windows})

get_temps_for_country ==
  ListsReadings("get_temps_for_country",
                {ReadingsOfCountry(id, window) : id \in RowIds, window \in Windows})

Listing ==
  /\ \/ get_countries \/ get_cities_all \/ get_cities_from_country
     \/ get_temps \/ get_temps_for_city \/ get_temps_for_country
  /\ UNCHANGED <<dbVars, pending, acked>>
-----------------------------------------------------------------------------
Request(w) ==
  \/ add_country(w) \/ add_city(w) \/ insert_city(w) \/ add_temp(w) \/ insert_temp(w)
  \/ modify_country(w) \/ modify_city(w) \/ modify_temp(w)
  \/ delete_country(w) \/ delete_city(w) \/ delete_temp(w)

Next ==
  \/ \E w \in Threads : Request(w)
  \/ Listing
  \/ Tick /\ answer' = NoAnswer /\ UNCHANGED <<pending, acked>>

Spec == Init /\ [][Next]_vars
-----------------------------------------------------------------------------
(* What is gone stays gone.  An id whose row was deleted, taken along by a *)
(* cascade or refused at its insert never comes back, and nothing hangs on *)
(* it again: not by a PUT that names it, and not by the insert of add_city *)
(* or add_temp, whose check may have found the parent before it went.      *)
DeletedStaysGone ==
  [][/\ \A id \in 1..serial["tari"] : id \notin IdsOf(tari) =>
          id \notin IdsOf(tari') /\ \A r \in orase' : r.idTara # id
     /\ \A id \in 1..serial["orase"] : id \notin IdsOf(orase) =>
          id \notin IdsOf(orase') /\ \A r \in temperaturi' : r.idOras # id
     /\ \A id \in 1..serial["temperaturi"] :
          id \notin IdsOf(temperaturi) => id \notin IdsOf(temperaturi')]_vars

(* The joins lose and double nothing: whatever the dates, each reading     *)
(* that get_temps lists is listed for exactly one city and exactly one     *)
(* country, the one its city is in, and nothing else is.                   *)
ListedOnce ==
  \A window \in Windows :
    LET ofCity(id) == ReadingsOfCity(id, window)
        ofCountry(id) == ReadingsOfCountry(id, window)
    IN  /\ \A r \in Within(window) :
             /\ \E o \in orase : /\ {id \in RowIds : r \in ofCity(id)} = {o.id}
                                 /\ {id \in RowIds : r \in ofCountry(id)} = {o.idTara}
        /\ \A id \in RowIds :
             ofCity(id) \subseteq Within(window) /\ ofCountry(id) \subseteq Within(window)

(* An id that was answered with 201 is never answered again, so what a     *)
(* client remembers never comes to mean another row, whatever is deleted   *)
(* in between.                                                             *)
IdsNeverReused ==
  [][answer'.code = 201 =>
       LET t == CASE answer'.op = "add_country" -> "tari"
                  [] answer'.op = "add_city" -> "orase"
                  [] OTHER -> "temperaturi"
       IN <<t, answer'.row.id>> \notin acked]_vars

(* A row disappears only when it, its city or its country is deleted by a  *)
(* request that names it; and then all that hangs on it goes too.          *)
OnlyDeletesRemove ==
  [][LET named(op, id) == answer'.op = op /\ answer'.row.id = id
     IN /\ \A id \in IdsOf(tari) : id \notin IdsOf(tari') => named("delete_country", id)
        /\ \A r \in orase : r.id \notin IdsOf(orase') =>
             named("delete_city", r.id) \/ named("delete_country", r.idTara)
        /\ \A r \in temperaturi : r.id \notin IdsOf(temperaturi') =>
             \/ named("delete_temp", r.id)
             \/ named("delete_city", r.idOras)
             \/ \E o \in orase : o.id = r.idOras /\ named("delete_country", o.idTara)]_vars

(* The status code tells the truth about the tables at the moment of the   *)
(* answer, unless the connection to the database was lost: 404 where what  *)
(* the request names, or hangs its row on, is not there; 409 where the row *)
(* would clash; except that a parent deleted after the check is 409 too,   *)
(* and a reading that clashes is 404.                                      *)
ClashesIn(rows, row, same(_, _)) == \E r \in rows : r.id # row.id /\ same(r, row)
SameName(r, s) == r.nume = s.nume
SameCity(r, s) == r.idTara = s.idTara /\ r.nume = s.nume
SameReading(r, s) == r.idOras = s.idOras /\ r.timestamp = s.timestamp

Listings == {"get_countries", "get_cities_all", "get_cities_from_country",
             "get_temps", "get_temps_for_city", "get_temps_for_country"}

Truthful ==
  LET row == answer.row
      code == answer.code
      Tells(t200, t404, t409) == \/ code \in {200, 201} /\ t200
                                 \/ code = 404 /\ t404
                                 \/ code = 409 /\ t409
  IN answer.op \notin {"none"} \cup Listings /\ ~answer.lost =>
     CASE answer.op \in {"add_country", "modify_country"} ->
            Tells(row \in tari, row.id \notin IdsOf(tari), ClashesIn(tari, row, SameName))
       [] answer.op \in {"add_city", "modify_city"} ->
            Tells(row \in orase,
                  IF answer.op = "add_city" THEN row.idTara \notin IdsOf(tari)
                  ELSE row.id \notin IdsOf(orase),
                  ClashesIn(orase, row, SameCity) \/ row.idTara \notin IdsOf(tari))
       [] answer.op = "add_temp" ->
            Tells(row \in temperaturi, row.idOras \notin IdsOf(orase),
                  ClashesIn(temperaturi, row, SameReading) \/ row.idOras \notin IdsOf(orase))
       [] answer.op = "modify_temp" ->
            Tells(row \in temperaturi,
                  \/ row.id \notin IdsOf(temperaturi)
                  \/ row.idOras \notin IdsOf(orase)
                  \/ ClashesIn(temperaturi, row, SameReading),
                  FALSE)
       [] answer.op = "delete_country" ->
            Tells(row.id \notin IdsOf(tari) /\ \A r \in orase : r.idTara # row.id,
                  row.id \notin IdsOf(tari), FALSE)
       [] answer.op = "delete_city" ->
            Tells(row.id \notin IdsOf(orase) /\ \A r \in temperaturi : r.idOras # row.id,
                  row.id \notin IdsOf(orase), FALSE)
       [] answer.op = "delete_temp" ->
            LET gone == row.id \notin IdsOf(temperaturi) IN Tells(gone, gone, FALSE)

AnswersTellTruth == [][Truthful']_vars
=============================================================================
