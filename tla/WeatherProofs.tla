---------------------------- MODULE WeatherProofs ----------------------------
(***************************************************************************)
(* What holds of the weather API for any number of requests at a time, any *)
(* names and any number of ids.                                            *)
(***************************************************************************)
EXTENDS WeatherApi, TLAPS

Rows(t, o, m) == t \subseteq Tari /\ o \subseteq Orase /\ m \subseteq Temperaturi

Codes == {0, 200, 201, 404, 409, 500}

(* What Execute leaves behind: the tables it was given or the old ones.    *)
LEMMA Executed ==
  ASSUME NEW t, NEW o, NEW m, NEW good, NEW bad, Execute(t, o, m, good, bad)
  PROVE  \/ UNCHANGED <<tari, orase, temperaturi>>
         \/ Consistent(t, o, m) /\ tari' = t /\ orase' = o /\ temperaturi' = m
BY DEF Execute, Write

(* The answer names the operation and the row; the good one means done.    *)
LEMMA Answered ==
  ASSUME NEW t, NEW o, NEW m, NEW op, NEW row, NEW good, NEW bad,
         Execute(t, o, m, Answer(op, row, good), Answer(op, row, bad))
  PROVE  /\ answer'.op = op /\ answer'.row = row
         /\ answer'.code \in {good, bad}
BY DEF Execute, Write, Answer

(* A GET changes nothing, and is answered with 200 or 500.                 *)
LEMMA ListingReads ==
  ASSUME Listing
  PROVE  /\ UNCHANGED <<tari, orase, temperaturi, serial, clock, pending, acked>>
         /\ answer'.code \in {200, 500}
<1>1. ASSUME NEW op, NEW rows, Lists(op, rows) PROVE answer'.code \in {200, 500}
  BY <1>1 DEF Lists, Answer
<1>2. ASSUME NEW op, NEW rows, ListsReadings(op, rows) PROVE answer'.code \in {200, 500}
  BY <1>2 DEF ListsReadings, Answer
<1>3. answer'.code \in {200, 500}
  <2>1. CASE get_countries
    BY <1>1, <2>1 DEF get_countries
  <2>2. CASE get_cities_all
    BY <1>1, <2>2 DEF get_cities_all
  <2>3. CASE get_cities_from_country
    BY <2>3 DEF get_cities_from_country, Answer
  <2>4. CASE get_temps
    BY <1>2, <2>4 DEF get_temps
  <2>5. CASE get_temps_for_city
    BY <1>2, <2>5 DEF get_temps_for_city
  <2>6. CASE get_temps_for_country
    BY <1>2, <2>6 DEF get_temps_for_country
  <2> QED BY <2>1, <2>2, <2>3, <2>4, <2>5, <2>6 DEF Listing
<1> QED BY <1>3 DEF Listing, dbVars

-----------------------------------------------------------------------------
(* The type invariant.                                                     *)

LEMMA ExecutedTyped ==
  ASSUME TypeOK, NEW t, NEW o, NEW m, NEW good, NEW bad, Execute(t, o, m, good, bad), Rows(t, o, m)
  PROVE  Rows(tari', orase', temperaturi')
BY Executed DEF TypeOK, DbTypeOK, Rows

LEMMA NewIdTyped ==
  ASSUME TypeOK, NEW t \in Tables, TakesId(t)
  PROVE  /\ NewId(t) \in RowIds
         /\ serial' \in [Tables -> 0 .. MaxId]
BY DatabaseAssumption DEF TypeOK, DbTypeOK, TakesId, NewId, RowIds

LEMMA AckTyped ==
  ASSUME TypeOK, NEW t \in Tables, NEW i \in RowIds, Acknowledge(t, i)
  PROVE  acked' \subseteq Tables \X RowIds
BY DEF TypeOK, Acknowledge

LEMMA PendingTyped ==
  ASSUME TypeOK, NEW w \in Threads
  PROVE  /\ pending[w].op = "add_city" => pending[w].idTara \in RowIds /\ pending[w].nume \in CityNames
         /\ pending[w].op = "add_temp" => pending[w].idOras \in RowIds
         /\ [pending EXCEPT ![w] = NoRow] \in [Threads -> Pending]
BY DEF TypeOK, Pending, NoRow

LEMMA AddTyped ==
  ASSUME TypeOK, NEW w \in Threads,
         add_country(w) \/ add_city(w) \/ insert_city(w) \/ add_temp(w) \/ insert_temp(w)
  PROVE  TypeOK'
<1>0. {"tari", "orase", "temperaturi"} = Tables
  BY DEF Tables
<1>1. CASE add_country(w)
  <2>1. PICK nume \in CountryNames :
          Execute(tari \cup {[id |-> NewId("tari"), nume |-> nume]}, orase, temperaturi,
                  Answer("add_country", [id |-> NewId("tari"), nume |-> nume], 201),
                  Answer("add_country", [id |-> NewId("tari"), nume |-> nume], 409))
    BY <1>1 DEF add_country
  <2>2. NewId("tari") \in RowIds /\ serial' \in [Tables -> 0 .. MaxId]
    BY <1>0, <1>1, NewIdTyped DEF add_country
  <2>3. Rows(tari', orase', temperaturi')
    <3>1. Rows(tari \cup {[id |-> NewId("tari"), nume |-> nume]}, orase, temperaturi)
      BY <2>2 DEF TypeOK, DbTypeOK, Rows, Tari
    <3> QED BY <2>1, <3>1, ExecutedTyped
  <2>4. answer'.code \in Codes
    <3>1. 201 \in Codes /\ 409 \in Codes
      BY DEF Codes
    <3>2. answer'.code \in {201, 409}
      BY <2>1, Answered
    <3> QED BY <3>1, <3>2
  <2>5. acked' \subseteq Tables \X RowIds
    BY <1>0, <1>1, <2>2, AckTyped DEF add_country
  <2> QED BY <1>1, <2>2, <2>3, <2>4, <2>5 DEF add_country, TypeOK, DbTypeOK, Rows, Codes
<1>2. CASE add_city(w)
  <2>1. pending' \in [Threads -> Pending]
    <3>1. \A idTara \in RowIds, nume \in CityNames :
             [op |-> "add_city", idTara |-> idTara, nume |-> nume] \in Pending
      BY DEF Pending
    <3> QED BY <1>2, <3>1 DEF add_city, TypeOK
  <2>2. answer'.code \in Codes
    BY <1>2 DEF add_city, NoAnswer, Answer, Codes
  <2> QED BY <1>2, <2>1, <2>2 DEF add_city, TypeOK, DbTypeOK, dbVars, Codes
<1>3. CASE insert_city(w)
  <2> DEFINE row == [id |-> NewId("orase"), idTara |-> pending[w].idTara, nume |-> pending[w].nume]
  <2>1. Execute(tari, orase \cup {row}, temperaturi, Answer("add_city", row, 201), Answer("add_city", row, 409))
    BY <1>3 DEF insert_city
  <2>2. NewId("orase") \in RowIds /\ serial' \in [Tables -> 0 .. MaxId]
    BY <1>0, <1>3, NewIdTyped DEF insert_city
  <2>3. Rows(tari', orase', temperaturi')
    <3>1. row \in Orase
      BY <1>3, <2>2, PendingTyped DEF insert_city, Orase
    <3>2. Rows(tari, orase \cup {row}, temperaturi)
      BY <3>1 DEF TypeOK, DbTypeOK, Rows
    <3> QED BY <2>1, <3>2, ExecutedTyped
  <2>4. answer'.code \in Codes
    <3>1. 201 \in Codes /\ 409 \in Codes
      BY DEF Codes
    <3>2. answer'.code \in {201, 409}
      BY <2>1, Answered
    <3> QED BY <3>1, <3>2
  <2>5. acked' \subseteq Tables \X RowIds
    BY <1>0, <1>3, <2>2, AckTyped DEF insert_city
  <2>6. pending' \in [Threads -> Pending]
    BY <1>3, PendingTyped DEF insert_city
  <2> QED BY <1>3, <2>2, <2>3, <2>4, <2>5, <2>6 DEF insert_city, TypeOK, DbTypeOK, Rows, Codes
<1>4. CASE add_temp(w)
  <2>1. pending' \in [Threads -> Pending]
    <3>1. \A idOras \in RowIds : [op |-> "add_temp", idOras |-> idOras] \in Pending
      BY DEF Pending
    <3> QED BY <1>4, <3>1 DEF add_temp, TypeOK
  <2>2. answer'.code \in Codes
    BY <1>4 DEF add_temp, NoAnswer, Answer, Codes
  <2> QED BY <1>4, <2>1, <2>2 DEF add_temp, TypeOK, DbTypeOK, dbVars, Codes
<1>5. CASE insert_temp(w)
  <2> DEFINE row == [id |-> NewId("temperaturi"), idOras |-> pending[w].idOras, timestamp |-> clock]
  <2>1. Execute(tari, orase, temperaturi \cup {row}, Answer("add_temp", row, 201), Answer("add_temp", row, 409))
    BY <1>5 DEF insert_temp
  <2>2. NewId("temperaturi") \in RowIds /\ serial' \in [Tables -> 0 .. MaxId]
    BY <1>0, <1>5, NewIdTyped DEF insert_temp
  <2>3. Rows(tari', orase', temperaturi')
    <3>1. row \in Temperaturi
      BY <1>5, <2>2, PendingTyped DEF insert_temp, Temperaturi, TypeOK, DbTypeOK
    <3>2. Rows(tari, orase, temperaturi \cup {row})
      BY <3>1 DEF TypeOK, DbTypeOK, Rows
    <3> QED BY <2>1, <3>2, ExecutedTyped
  <2>4. answer'.code \in Codes
    <3>1. 201 \in Codes /\ 409 \in Codes
      BY DEF Codes
    <3>2. answer'.code \in {201, 409}
      BY <2>1, Answered
    <3> QED BY <3>1, <3>2
  <2>5. acked' \subseteq Tables \X RowIds
    BY <1>0, <1>5, <2>2, AckTyped DEF insert_temp
  <2>6. pending' \in [Threads -> Pending]
    BY <1>5, PendingTyped DEF insert_temp
  <2> QED BY <1>5, <2>2, <2>3, <2>4, <2>5, <2>6 DEF insert_temp, TypeOK, DbTypeOK, Rows, Codes
<1> QED BY <1>1, <1>2, <1>3, <1>4, <1>5

(* What a PUT or a DELETE leaves behind.                                   *)
LEMMA ReplaceTyped ==
  ASSUME NEW S, NEW rows \in SUBSET S, NEW row \in S
  PROVE  Replace(rows, row) \subseteq S
BY DEF Replace

LEMMA LeftTyped ==
  ASSUME NEW t, NEW o, NEW m, Rows(t, o, m), NEW id, NEW u
  PROVE  /\ Rows(Without(t, id), OraseLeft(u, o), TemperaturiLeft(OraseLeft(u, o), m))
         /\ Rows(t, Without(o, id), m) /\ Rows(t, o, Without(m, id))
         /\ Rows(t, OraseLeft(u, Without(o, id)), TemperaturiLeft(OraseLeft(u, Without(o, id)), m))
BY DEF Rows, Without, OraseLeft, TemperaturiLeft

LEMMA ModifyTyped ==
  ASSUME TypeOK, NEW w \in Threads,
         modify_country(w) \/ modify_city(w) \/ modify_temp(w)
  PROVE  Rows(tari', orase', temperaturi') /\ answer'.code \in Codes
<1>0. /\ Rows(tari, orase, temperaturi)
      /\ 200 \in Codes /\ 404 \in Codes /\ 409 \in Codes
  BY DEF TypeOK, DbTypeOK, Rows, Codes
<1>1. CASE modify_country(w)
  <2>1. PICK row \in Tari :
          \/ Missing(tari, "modify_country", row)
          \/ Execute(Replace(tari, row), orase, temperaturi,
                     Answer("modify_country", row, 200), Answer("modify_country", row, 409))
    BY <1>1 DEF modify_country
  <2>2. CASE Missing(tari, "modify_country", row)
    BY <1>0, <2>2 DEF Missing, Answer, Rows
  <2>3. CASE Execute(Replace(tari, row), orase, temperaturi,
                     Answer("modify_country", row, 200), Answer("modify_country", row, 409))
    <3>1. Rows(Replace(tari, row), orase, temperaturi)
      BY <1>0, ReplaceTyped DEF Rows
    <3>2. answer'.code \in {200, 409}
      BY <2>3, Answered
    <3> QED BY <1>0, <2>3, <3>1, <3>2, ExecutedTyped
  <2> QED BY <2>1, <2>2, <2>3
<1>2. CASE modify_city(w)
  <2>1. PICK row \in Orase :
          \/ Missing(orase, "modify_city", row)
          \/ Execute(tari, Replace(orase, row), temperaturi,
                     Answer("modify_city", row, 200), Answer("modify_city", row, 409))
    BY <1>2 DEF modify_city
  <2>2. CASE Missing(orase, "modify_city", row)
    BY <1>0, <2>2 DEF Missing, Answer, Rows
  <2>3. CASE Execute(tari, Replace(orase, row), temperaturi,
                     Answer("modify_city", row, 200), Answer("modify_city", row, 409))
    <3>1. Rows(tari, Replace(orase, row), temperaturi)
      BY <1>0, ReplaceTyped DEF Rows
    <3>2. answer'.code \in {200, 409}
      BY <2>3, Answered
    <3> QED BY <1>0, <2>3, <3>1, <3>2, ExecutedTyped
  <2> QED BY <2>1, <2>2, <2>3
<1>3. CASE modify_temp(w)
  <2>1. PICK old \in Temperaturi, idOras \in RowIds :
          LET row == [old EXCEPT !.idOras = idOras]
          IN  \/ Missing(temperaturi, "modify_temp", row)
              \/ Execute(tari, orase, Replace(temperaturi, row),
                         Answer("modify_temp", row, 200), Answer("modify_temp", row, 404))
    BY <1>3 DEF modify_temp
  <2> DEFINE row == [old EXCEPT !.idOras = idOras]
  <2>2. CASE Missing(temperaturi, "modify_temp", row)
    BY <1>0, <2>2 DEF Missing, Answer, Rows
  <2>3. CASE Execute(tari, orase, Replace(temperaturi, row),
                     Answer("modify_temp", row, 200), Answer("modify_temp", row, 404))
    <3>1. row \in Temperaturi
      BY DEF Temperaturi
    <3>2. Rows(tari, orase, Replace(temperaturi, row))
      BY <1>0, <3>1, ReplaceTyped DEF Rows
    <3>3. answer'.code \in {200, 404}
      BY <2>3, Answered
    <3> QED BY <1>0, <2>3, <3>2, <3>3, ExecutedTyped
  <2> QED BY <2>1, <2>2, <2>3
<1> QED BY <1>1, <1>2, <1>3

LEMMA DeleteTyped ==
  ASSUME TypeOK, NEW w \in Threads,
         delete_country(w) \/ delete_city(w) \/ delete_temp(w)
  PROVE  Rows(tari', orase', temperaturi') /\ answer'.code \in Codes
<1>0. /\ Rows(tari, orase, temperaturi)
      /\ 200 \in Codes /\ 404 \in Codes
  BY DEF TypeOK, DbTypeOK, Rows, Codes
<1>1. ASSUME NEW rows, NEW op, NEW id, NEW t, NEW o, DeleteFrom(rows, op, id, t, o),
             Rows(t, OraseLeft(t, o), TemperaturiLeft(OraseLeft(t, o), temperaturi))
      PROVE  Rows(tari', orase', temperaturi') /\ answer'.code \in Codes
  <2>1. CASE answer' = Answer(op, [id |-> id], 404) /\ UNCHANGED <<tari, orase, temperaturi>>
    BY <1>0, <2>1 DEF Answer, Rows
  <2>2. CASE Execute(t, OraseLeft(t, o), TemperaturiLeft(OraseLeft(t, o), temperaturi),
                     Answer(op, [id |-> id], 200), Answer(op, [id |-> id], 200))
    <3>1. answer'.code \in {200}
      BY <2>2, Answered
    <3> QED BY <1>0, <1>1, <2>2, <3>1, ExecutedTyped
  <2> QED BY <1>1, <2>1, <2>2 DEF DeleteFrom
<1>2. CASE delete_country(w)
  BY <1>0, <1>1, <1>2, LeftTyped DEF delete_country
<1>3. CASE delete_city(w)
  BY <1>0, <1>1, <1>3, LeftTyped DEF delete_city
<1>4. CASE delete_temp(w)
  <2>1. PICK id \in RowIds :
          \/ /\ answer' = Answer("delete_temp", [id |-> id], 404)
             /\ UNCHANGED <<tari, orase, temperaturi>>
          \/ Execute(tari, orase, Without(temperaturi, id),
                     Answer("delete_temp", [id |-> id], 200),
                     Answer("delete_temp", [id |-> id], 200))
    BY <1>4 DEF delete_temp
  <2>2. CASE answer' = Answer("delete_temp", [id |-> id], 404) /\ UNCHANGED <<tari, orase, temperaturi>>
    BY <1>0, <2>2 DEF Answer, Rows
  <2>3. CASE Execute(tari, orase, Without(temperaturi, id),
                     Answer("delete_temp", [id |-> id], 200), Answer("delete_temp", [id |-> id], 200))
    <3>1. answer'.code \in {200}
      BY <2>3, Answered
    <3> QED BY <1>0, <2>3, <3>1, LeftTyped, ExecutedTyped
  <2> QED BY <2>1, <2>2, <2>3
<1> QED BY <1>2, <1>3, <1>4

LEMMA TypeInductive == TypeOK /\ [Next]_vars => TypeOK'
<1> SUFFICES ASSUME TypeOK, [Next]_vars PROVE TypeOK'
  OBVIOUS
<1>1. ASSUME NEW w \in Threads, Request(w) PROVE TypeOK'
  <2>1. CASE modify_country(w) \/ modify_city(w) \/ modify_temp(w)
    <3>1. Rows(tari', orase', temperaturi') /\ answer'.code \in Codes
      BY <2>1, ModifyTyped
    <3>2. UNCHANGED <<serial, clock, pending, acked>>
      BY <2>1 DEF modify_country, modify_city, modify_temp
    <3> QED BY <3>1, <3>2 DEF TypeOK, DbTypeOK, Rows, Codes
  <2>2. CASE delete_country(w) \/ delete_city(w) \/ delete_temp(w)
    <3>1. Rows(tari', orase', temperaturi') /\ answer'.code \in Codes
      BY <2>2, DeleteTyped
    <3>2. UNCHANGED <<serial, clock, pending, acked>>
      BY <2>2 DEF delete_country, delete_city, delete_temp
    <3> QED BY <3>1, <3>2 DEF TypeOK, DbTypeOK, Rows, Codes
  <2> QED BY <1>1, <2>1, <2>2, AddTyped DEF Request
<1>2. CASE Tick /\ answer' = NoAnswer /\ UNCHANGED <<pending, acked>>
  BY <1>2, DatabaseAssumption DEF Tick, TypeOK, DbTypeOK, NoAnswer, Answer
<1>3. CASE UNCHANGED vars
  BY <1>3 DEF vars, dbVars, TypeOK, DbTypeOK
<1>4. CASE Listing
  BY <1>4, ListingReads DEF TypeOK, DbTypeOK
<1> QED BY <1>1, <1>2, <1>3, <1>4 DEF Next

(* Tables, ids, the clock, pending rows and answers keep their types.      *)
THEOREM TypeCorrect == Spec => []TypeOK
<1>1. Init => TypeOK
  BY DatabaseAssumption
  DEF Init, DbInit, TypeOK, DbTypeOK, Pending, NoRow, NoAnswer, Answer, Tables
<1> QED BY <1>1, TypeInductive, PTL DEF Spec

-----------------------------------------------------------------------------
(* The tables.                                                             *)

Tidy == Consistent(tari, orase, temperaturi)

LEMMA ExecutedTidy ==
  ASSUME Tidy, NEW t, NEW o, NEW m, NEW good, NEW bad, Execute(t, o, m, good, bad)
  PROVE  Tidy'
<1>1. CASE UNCHANGED <<tari, orase, temperaturi>>
  BY <1>1 DEF Tidy, Consistent, TariConstraints, OraseConstraints, TemperaturiConstraints,
              KeyUnique, IdsOf
<1>2. CASE Consistent(t, o, m) /\ tari' = t /\ orase' = o /\ temperaturi' = m
  BY <1>2 DEF Tidy, Consistent, TariConstraints, OraseConstraints, TemperaturiConstraints,
              KeyUnique, IdsOf
<1> QED BY <1>1, <1>2, Executed

LEMMA TidyInductive == Tidy /\ [Next]_vars => Tidy'
<1> SUFFICES ASSUME Tidy, [Next]_vars PROVE Tidy'
  OBVIOUS
<1>0. ASSUME UNCHANGED <<tari, orase, temperaturi>> PROVE Tidy'
  BY <1>0 DEF Tidy, Consistent, TariConstraints, OraseConstraints, TemperaturiConstraints,
              KeyUnique, IdsOf
<1>1. ASSUME NEW w \in Threads, add_country(w) \/ insert_city(w) \/ insert_temp(w) PROVE Tidy'
  <2>1. CASE add_country(w)
    BY <2>1, ExecutedTidy DEF add_country
  <2>2. CASE insert_city(w)
    BY <2>2, ExecutedTidy DEF insert_city
  <2>3. CASE insert_temp(w)
    BY <2>3, ExecutedTidy DEF insert_temp
  <2> QED BY <1>1, <2>1, <2>2, <2>3
<1>2. ASSUME NEW w \in Threads, modify_country(w) \/ modify_city(w) \/ modify_temp(w) PROVE Tidy'
  <2>0. ASSUME NEW rows, NEW op, NEW row, Missing(rows, op, row) PROVE Tidy'
    BY <1>0, <2>0 DEF Missing
  <2>1. CASE modify_country(w)
    BY <2>0, <2>1, ExecutedTidy DEF modify_country
  <2>2. CASE modify_city(w)
    BY <2>0, <2>2, ExecutedTidy DEF modify_city
  <2>3. CASE modify_temp(w)
    BY <2>0, <2>3, ExecutedTidy DEF modify_temp
  <2> QED BY <1>2, <2>1, <2>2, <2>3
<1>3. ASSUME NEW w \in Threads, delete_country(w) \/ delete_city(w) \/ delete_temp(w) PROVE Tidy'
  <2>1. CASE delete_country(w)
    BY <1>0, <2>1, ExecutedTidy DEF delete_country, DeleteFrom
  <2>2. CASE delete_city(w)
    BY <1>0, <2>2, ExecutedTidy DEF delete_city, DeleteFrom
  <2>3. CASE delete_temp(w)
    BY <1>0, <2>3, ExecutedTidy DEF delete_temp
  <2> QED BY <1>3, <2>1, <2>2, <2>3
<1>4. ASSUME NEW w \in Threads, add_city(w) \/ add_temp(w) PROVE Tidy'
  BY <1>0, <1>4 DEF add_city, add_temp, dbVars
<1>5. CASE Tick
  BY <1>0, <1>5 DEF Tick
<1>6. CASE UNCHANGED vars
  BY <1>0, <1>6 DEF vars, dbVars
<1>7. CASE Listing
  BY <1>0, <1>7, ListingReads
<1> QED BY <1>1, <1>2, <1>3, <1>4, <1>5, <1>6, <1>7 DEF Next, Request

(* The one city and the one country that a reading is listed for.          *)
LEMMA ReadingListed ==
  ASSUME TypeOK, Tidy, NEW window, NEW r \in Within(window)
  PROVE  \E o \in orase :
           /\ {id \in RowIds : r \in ReadingsOfCity(id, window)} = {o.id}
           /\ {id \in RowIds : r \in ReadingsOfCountry(id, window)} = {o.idTara}
<1>1. PICK o \in orase : o.id = r.idOras
  BY DEF Tidy, Consistent, TemperaturiConstraints, IdsOf, Within
<1>2. PICK t \in tari : t.id = o.idTara
  BY DEF Tidy, Consistent, OraseConstraints, IdsOf
<1>3. o.id \in RowIds /\ o.idTara \in RowIds
  BY DEF TypeOK, DbTypeOK, Orase
<1>4. \A p \in orase : p.id = r.idOras => p = o
  BY <1>1 DEF Tidy, Consistent, OraseConstraints, KeyUnique
<1>5. \A id : r \in ReadingsOfCity(id, window) <=> id = o.id
  BY <1>1, <1>4 DEF ReadingsOfCity, ReadingsNear
<1>6. \A id : r \in ReadingsOfCountry(id, window) <=> id = o.idTara
  BY <1>1, <1>2, <1>4 DEF ReadingsOfCountry
<1> QED BY <1>3, <1>5, <1>6

(* The joins of the GET handlers lose and double no reading.               *)
THEOREM ReadingsListedOnce == Spec => []ListedOnce
<1>1. Init => Tidy
  BY DEF Init, DbInit, Tidy, Consistent, TariConstraints, OraseConstraints,
         TemperaturiConstraints, KeyUnique, IdsOf
<1>2. TypeOK /\ Tidy => ListedOnce
  <2> SUFFICES ASSUME TypeOK, Tidy, NEW window \in Windows
               PROVE  /\ \A r \in Within(window) :
                           \E o \in orase :
                             /\ {id \in RowIds : r \in ReadingsOfCity(id, window)} = {o.id}
                             /\ {id \in RowIds : r \in ReadingsOfCountry(id, window)}
                                  = {o.idTara}
                      /\ \A id \in RowIds :
                           /\ ReadingsOfCity(id, window) \subseteq Within(window)
                           /\ ReadingsOfCountry(id, window) \subseteq Within(window)
    BY DEF ListedOnce
  <2>1. \A id \in RowIds : /\ ReadingsOfCity(id, window) \subseteq Within(window)
                           /\ ReadingsOfCountry(id, window) \subseteq Within(window)
    BY DEF ReadingsOfCity, ReadingsOfCountry, ReadingsNear
  <2> QED BY <2>1, ReadingListed
<1> QED BY <1>1, <1>2, TidyInductive, TypeCorrect, PTL DEF Spec

-----------------------------------------------------------------------------
(* The ids.                                                                *)

AckedBelow == \A t \in Tables, i \in RowIds : <<t, i>> \in acked => i <= serial[t]

(* What insert statements do to acked; "here" is the table they insert to. *)
LEMMA AckedOnce ==
  ASSUME TypeOK, AckedBelow, NEW here \in Tables, TakesId(here), Acknowledge(here, NewId(here))
  PROVE  <<here, NewId(here)>> \notin acked /\ AckedBelow'
<1>1. /\ serial \in [Tables -> 0 .. MaxId] /\ NewId(here) = serial[here] + 1 /\ MaxId \in Nat
      /\ NewId(here) \in RowIds /\ serial' = [serial EXCEPT ![here] = @ + 1]
      /\ acked' \subseteq acked \cup {<<here, NewId(here)>>}
  <2>1. NewId(here) \in RowIds
    BY NewIdTyped
  <2>2. /\ serial \in [Tables -> 0 .. MaxId] /\ MaxId \in Nat
        /\ serial' = [serial EXCEPT ![here] = @ + 1]
    BY DatabaseAssumption DEF TypeOK, DbTypeOK, TakesId
  <2>3. acked' \subseteq acked \cup {<<here, NewId(here)>>}
    BY DEF Acknowledge
  <2>4. NewId(here) = serial[here] + 1
    BY DEF NewId
  <2> QED BY <2>1, <2>2, <2>3, <2>4
<1>2. <<here, NewId(here)>> \notin acked
  BY <1>1 DEF AckedBelow
<1>3. ASSUME NEW t \in Tables, NEW i \in RowIds, <<t, i>> \in acked' PROVE i <= serial'[t]
  <2>1. CASE <<t, i>> \in acked
    BY <1>1, <1>3, <2>1 DEF AckedBelow, RowIds
  <2>2. CASE t = here /\ i = NewId(here)
    BY <1>1, <2>2
  <2> QED BY <1>1, <1>3, <2>1, <2>2
<1> QED BY <1>2, <1>3 DEF AckedBelow

AnswersNewId ==
  answer'.code = 201 =>
    LET t == CASE answer'.op = "add_country" -> "tari"
               [] answer'.op = "add_city" -> "orase"
               [] OTHER -> "temperaturi"
    IN <<t, answer'.row.id>> \notin acked

LEMMA IdsStep ==
  ASSUME TypeOK, AckedBelow, [Next]_vars
  PROVE  AckedBelow' /\ (AnswersNewId \/ UNCHANGED vars)
<1>0. "tari" \in Tables /\ "orase" \in Tables /\ "temperaturi" \in Tables
  BY DEF Tables
<1>1. ASSUME NEW w \in Threads, add_country(w) PROVE AckedBelow' /\ AnswersNewId
  <2>1. <<"tari", NewId("tari")>> \notin acked /\ AckedBelow'
    BY <1>0, <1>1, AckedOnce DEF add_country
  <2>2. answer'.op = "add_country" /\ answer'.row.id = NewId("tari")
    BY <1>1, Answered DEF add_country
  <2> QED BY <2>1, <2>2 DEF AnswersNewId
<1>2. ASSUME NEW w \in Threads, insert_city(w) PROVE AckedBelow' /\ AnswersNewId
  <2>1. <<"orase", NewId("orase")>> \notin acked /\ AckedBelow'
    BY <1>0, <1>2, AckedOnce DEF insert_city
  <2>2. answer'.op = "add_city" /\ answer'.row.id = NewId("orase")
    BY <1>2, Answered DEF insert_city
  <2> QED BY <2>1, <2>2 DEF AnswersNewId
<1>3. ASSUME NEW w \in Threads, insert_temp(w) PROVE AckedBelow' /\ AnswersNewId
  <2>1. <<"temperaturi", NewId("temperaturi")>> \notin acked /\ AckedBelow'
    BY <1>0, <1>3, AckedOnce DEF insert_temp
  <2>2. answer'.op = "add_temp" /\ answer'.row.id = NewId("temperaturi")
    BY <1>3, Answered DEF insert_temp
  <2> QED BY <2>1, <2>2 DEF AnswersNewId
<1>4. ASSUME answer'.code # 201, UNCHANGED <<serial, acked>> PROVE AckedBelow' /\ AnswersNewId
  BY <1>4 DEF AckedBelow, AnswersNewId
<1>5. ASSUME NEW w \in Threads, add_city(w) \/ add_temp(w) PROVE AckedBelow' /\ AnswersNewId
  <2>1. CASE add_city(w)
    BY <1>4, <2>1 DEF add_city, NoAnswer, Answer, dbVars
  <2>2. CASE add_temp(w)
    BY <1>4, <2>2 DEF add_temp, NoAnswer, Answer, dbVars
  <2> QED BY <1>5, <2>1, <2>2
<1>6. ASSUME NEW w \in Threads, modify_country(w) \/ modify_city(w) \/ modify_temp(w)
      PROVE  AckedBelow' /\ AnswersNewId
  <2>1. ASSUME NEW t, NEW o, NEW m, NEW op, NEW row, NEW bad \in {404, 409},
               Execute(t, o, m, Answer(op, row, 200), Answer(op, row, bad))
        PROVE  answer'.code # 201
    BY <2>1, Answered
  <2>2. ASSUME NEW rows, NEW op, NEW row, Missing(rows, op, row) PROVE answer'.code # 201
    BY <2>2 DEF Missing, Answer
  <2>3. CASE modify_country(w)
    BY <1>4, <2>1, <2>2, <2>3 DEF modify_country
  <2>4. CASE modify_city(w)
    BY <1>4, <2>1, <2>2, <2>4 DEF modify_city
  <2>5. CASE modify_temp(w)
    BY <1>4, <2>1, <2>2, <2>5 DEF modify_temp
  <2> QED BY <1>6, <2>3, <2>4, <2>5
<1>7. ASSUME NEW w \in Threads, delete_country(w) \/ delete_city(w) \/ delete_temp(w)
      PROVE  AckedBelow' /\ AnswersNewId
  <2>1. ASSUME NEW t, NEW o, NEW m, NEW op, NEW row,
               Execute(t, o, m, Answer(op, row, 200), Answer(op, row, 200))
        PROVE  answer'.code # 201
    BY <2>1, Answered
  <2>2. ASSUME NEW op, NEW row, answer' = Answer(op, row, 404) PROVE answer'.code # 201
    BY <2>2 DEF Answer
  <2>3. CASE delete_country(w)
    BY <1>4, <2>1, <2>2, <2>3 DEF delete_country, DeleteFrom
  <2>4. CASE delete_city(w)
    BY <1>4, <2>1, <2>2, <2>4 DEF delete_city, DeleteFrom
  <2>5. CASE delete_temp(w)
    BY <1>4, <2>1, <2>2, <2>5 DEF delete_temp
  <2> QED BY <1>7, <2>3, <2>4, <2>5
<1>8. CASE Tick /\ answer' = NoAnswer /\ UNCHANGED <<pending, acked>>
  BY <1>4, <1>8 DEF Tick, NoAnswer, Answer
<1>9. CASE UNCHANGED vars
  BY <1>9 DEF vars, dbVars, AckedBelow
<1>10. CASE Listing
  BY <1>4, <1>10, ListingReads
<1> QED BY <1>1, <1>2, <1>3, <1>5, <1>6, <1>7, <1>8, <1>9, <1>10 DEF Next, Request

(* An id answered with 201 was never answered before.                      *)
THEOREM IdsAnsweredOnce == Spec => IdsNeverReused
<1>1. Init => AckedBelow
  BY DEF Init, AckedBelow
<1>2. TypeOK /\ AckedBelow /\ [Next]_vars => AckedBelow'
  BY IdsStep
<1>3. TypeOK /\ AckedBelow /\ [Next]_vars => [AnswersNewId]_vars
  BY IdsStep
<1>4. Spec => [][AnswersNewId]_vars
  BY <1>1, <1>2, <1>3, TypeCorrect, PTL DEF Spec
<1> QED BY <1>4, PTL DEF IdsNeverReused, AnswersNewId
-----------------------------------------------------------------------------
(* What a step may add.                                                    *)

(* A row that is new has the id its sequence hands out with it.            *)
NewIdsOnly ==
  /\ \A t \in Tables : serial'[t] >= serial[t]
  /\ \A r \in tari' :
       r.id \in IdsOf(tari) \/ (r.id = serial["tari"] + 1 /\ r.id = serial'["tari"])
  /\ \A r \in orase' :
       r.id \in IdsOf(orase) \/ (r.id = serial["orase"] + 1 /\ r.id = serial'["orase"])
  /\ \A r \in temperaturi' :
       \/ r.id \in IdsOf(temperaturi)
       \/ r.id = serial["temperaturi"] + 1 /\ r.id = serial'["temperaturi"]

LEMMA AddsNewIds ==
  ASSUME TypeOK, [Next]_vars
  PROVE  NewIdsOnly
<1>0. /\ serial \in [Tables -> 0 .. MaxId] /\ Tables = {"tari", "orase", "temperaturi"}
      /\ \A r \in tari \cup orase \cup temperaturi : r.id \in Nat
  BY DEF TypeOK, DbTypeOK, Tables, Tari, Orase, Temperaturi, RowIds
<1>00. /\ \A r \in tari : r.id \in IdsOf(tari)
       /\ \A r \in orase : r.id \in IdsOf(orase)
       /\ \A r \in temperaturi : r.id \in IdsOf(temperaturi)
  BY DEF IdsOf
<1>1. ASSUME UNCHANGED serial,
             /\ IdsOf(tari') \subseteq IdsOf(tari) /\ IdsOf(orase') \subseteq IdsOf(orase)
             /\ IdsOf(temperaturi') \subseteq IdsOf(temperaturi)
      PROVE  NewIdsOnly
  <2>1. \A t \in Tables : serial'[t] >= serial[t]
    BY <1>0, <1>1
  <2>2. /\ \A r \in tari' : r.id \in IdsOf(tari')
        /\ \A r \in orase' : r.id \in IdsOf(orase')
        /\ \A r \in temperaturi' : r.id \in IdsOf(temperaturi')
    BY DEF IdsOf
  <2> QED BY <1>1, <2>1, <2>2 DEF NewIdsOnly
<1>2. ASSUME NEW w \in Threads, add_country(w) PROVE NewIdsOnly
  <2>1. serial' = [serial EXCEPT !["tari"] = @ + 1] /\ UNCHANGED <<orase, temperaturi>>
    BY <1>2, Executed DEF add_country, TakesId
  <2>2. \A r \in tari' : r \in tari \/ r.id = serial["tari"] + 1
    BY <1>2, Executed DEF add_country, NewId
  <2> QED BY <1>0, <1>00, <2>1, <2>2 DEF NewIdsOnly
<1>3. ASSUME NEW w \in Threads, insert_city(w) PROVE NewIdsOnly
  <2> DEFINE row == [id |-> NewId("orase"), idTara |-> pending[w].idTara, nume |-> pending[w].nume]
  <2>1. serial' = [serial EXCEPT !["orase"] = @ + 1]
    BY <1>3 DEF insert_city, TakesId
  <2>2. /\ UNCHANGED <<tari, temperaturi>>
        /\ orase' \in {orase, orase \cup {row}}
    BY <1>3, Executed DEF insert_city
  <2>3. row.id = serial["orase"] + 1
    BY DEF NewId
  <2> HIDE DEF row
  <2>4. \A r \in orase' : r \in orase \/ r.id = serial["orase"] + 1
    BY <2>2, <2>3
  <2> QED BY <1>0, <1>00, <2>1, <2>2, <2>4 DEF NewIdsOnly
<1>4. ASSUME NEW w \in Threads, insert_temp(w) PROVE NewIdsOnly
  <2> DEFINE row == [id |-> NewId("temperaturi"), idOras |-> pending[w].idOras, timestamp |-> clock]
  <2>1. serial' = [serial EXCEPT !["temperaturi"] = @ + 1]
    BY <1>4 DEF insert_temp, TakesId
  <2>2. /\ UNCHANGED <<tari, orase>>
        /\ temperaturi' \in {temperaturi, temperaturi \cup {row}}
    BY <1>4, Executed DEF insert_temp
  <2>3. row.id = serial["temperaturi"] + 1
    BY DEF NewId
  <2> HIDE DEF row
  <2>4. \A r \in temperaturi' : r \in temperaturi \/ r.id = serial["temperaturi"] + 1
    BY <2>2, <2>3
  <2> QED BY <1>0, <1>00, <2>1, <2>2, <2>4 DEF NewIdsOnly
<1>5. ASSUME NEW w \in Threads, modify_country(w) \/ modify_city(w) \/ modify_temp(w)
      PROVE  NewIdsOnly
  <2>0. ASSUME NEW rows, NEW row, row.id \in IdsOf(rows)
        PROVE  IdsOf(Replace(rows, row)) \subseteq IdsOf(rows)
    BY <2>0 DEF IdsOf, Replace
  <2>1. UNCHANGED serial
    BY <1>5 DEF modify_country, modify_city, modify_temp
  <2>2. CASE modify_country(w)
    <3>1. PICK row \in Tari :
            \/ UNCHANGED <<tari, orase, temperaturi>>
            \/ /\ row.id \in IdsOf(tari)
               /\ tari' = Replace(tari, row) /\ UNCHANGED <<orase, temperaturi>>
      BY <2>2, Executed DEF modify_country, Missing
    <3> QED BY <1>1, <2>0, <2>1, <3>1
  <2>3. CASE modify_city(w)
    <3>1. PICK row \in Orase :
            \/ UNCHANGED <<tari, orase, temperaturi>>
            \/ /\ row.id \in IdsOf(orase)
               /\ orase' = Replace(orase, row) /\ UNCHANGED <<tari, temperaturi>>
      BY <2>3, Executed DEF modify_city, Missing
    <3> QED BY <1>1, <2>0, <2>1, <3>1
  <2>4. CASE modify_temp(w)
    <3>1. PICK old \in Temperaturi, idOras \in RowIds :
            LET row == [old EXCEPT !.idOras = idOras]
            IN  \/ UNCHANGED <<tari, orase, temperaturi>>
                \/ /\ old \in temperaturi
                   /\ temperaturi' = Replace(temperaturi, row) /\ UNCHANGED <<tari, orase>>
      BY <2>4, Executed DEF modify_temp, Missing
    <3> DEFINE row == [old EXCEPT !.idOras = idOras]
    <3>2. old \in temperaturi => row.id \in IdsOf(temperaturi)
      BY DEF Temperaturi, IdsOf
    <3> HIDE DEF row
    <3> QED BY <1>1, <2>0, <2>1, <3>1, <3>2 DEF row
  <2> QED BY <1>5, <2>2, <2>3, <2>4
<1>6. ASSUME NEW w \in Threads, delete_country(w) \/ delete_city(w) \/ delete_temp(w)
      PROVE  NewIdsOnly
  <2>1. UNCHANGED serial
    BY <1>6 DEF delete_country, delete_city, delete_temp
  <2>2. tari' \subseteq tari /\ orase' \subseteq orase /\ temperaturi' \subseteq temperaturi
    <3>1. ASSUME NEW rows, NEW op, NEW id, NEW t, NEW o, DeleteFrom(rows, op, id, t, o),
                 t \subseteq tari, o \subseteq orase
          PROVE  tari' \subseteq tari /\ orase' \subseteq orase /\ temperaturi' \subseteq temperaturi
      <4>1. OraseLeft(t, o) \subseteq orase /\ TemperaturiLeft(OraseLeft(t, o), temperaturi) \subseteq temperaturi
        BY <3>1 DEF OraseLeft, TemperaturiLeft
      <4>2. \/ UNCHANGED <<tari, orase, temperaturi>>
            \/ /\ tari' = t /\ orase' = OraseLeft(t, o)
               /\ temperaturi' = TemperaturiLeft(OraseLeft(t, o), temperaturi)
        BY <3>1, Executed DEF DeleteFrom
      <4> QED BY <3>1, <4>1, <4>2
    <3>2. /\ \A id : Without(tari, id) \subseteq tari
          /\ \A id : Without(orase, id) \subseteq orase
          /\ \A id : Without(temperaturi, id) \subseteq temperaturi
      BY DEF Without
    <3>3. CASE delete_country(w)
      BY <3>1, <3>2, <3>3 DEF delete_country
    <3>4. CASE delete_city(w)
      BY <3>1, <3>2, <3>4 DEF delete_city
    <3>5. CASE delete_temp(w)
      BY <3>2, <3>5, Executed DEF delete_temp
    <3> QED BY <1>6, <3>3, <3>4, <3>5
  <2> QED BY <1>1, <2>1, <2>2 DEF IdsOf
<1>7. ASSUME NEW w \in Threads, add_city(w) \/ add_temp(w) PROVE NewIdsOnly
  BY <1>1, <1>7 DEF add_city, add_temp, dbVars
<1>8. CASE Tick
  BY <1>1, <1>8 DEF Tick
<1>9. CASE UNCHANGED vars
  BY <1>1, <1>9 DEF vars, dbVars
<1>10. CASE Listing
  BY <1>1, <1>10, ListingReads
<1> QED BY <1>2, <1>3, <1>4, <1>5, <1>6, <1>7, <1>8, <1>9, <1>10 DEF Next, Request

StaysGone ==
  /\ \A id \in 1..serial["tari"] : id \notin IdsOf(tari) =>
       id \notin IdsOf(tari') /\ \A r \in orase' : r.idTara # id
  /\ \A id \in 1..serial["orase"] : id \notin IdsOf(orase) =>
       id \notin IdsOf(orase') /\ \A r \in temperaturi' : r.idOras # id
  /\ \A id \in 1..serial["temperaturi"] :
       id \notin IdsOf(temperaturi) => id \notin IdsOf(temperaturi')

(* However many requests overlap, and wherever connections get lost: a row *)
(* that is gone never comes back under its id and gets no new dependents,  *)
(* also from a handler whose check is out of date.                         *)
THEOREM GoneForGood == Spec => DeletedStaysGone
<1>1. Init => Tidy
  BY DEF Init, DbInit, Tidy, Consistent, TariConstraints, OraseConstraints,
         TemperaturiConstraints, KeyUnique, IdsOf
<1>2. TypeOK /\ Tidy /\ [Next]_vars => [StaysGone]_vars
  <2> SUFFICES ASSUME TypeOK, Tidy, [Next]_vars PROVE StaysGone
    OBVIOUS
  <2>1. serial["tari"] \in Int /\ serial["orase"] \in Int /\ serial["temperaturi"] \in Int
    BY DEF TypeOK, DbTypeOK, Tables
  <2>2. \A id \in 1..serial["tari"] : id \in IdsOf(tari') => id \in IdsOf(tari)
    BY <2>1, AddsNewIds DEF NewIdsOnly, IdsOf
  <2>3. \A id \in 1..serial["orase"] : id \in IdsOf(orase') => id \in IdsOf(orase)
    BY <2>1, AddsNewIds DEF NewIdsOnly, IdsOf
  <2>4. \A id \in 1..serial["temperaturi"] : id \in IdsOf(temperaturi') => id \in IdsOf(temperaturi)
    BY <2>1, AddsNewIds DEF NewIdsOnly, IdsOf
  <2>5. Tidy'
    BY TidyInductive
  <2>6. /\ \A r \in orase' : r.idTara \in IdsOf(tari')
        /\ \A r \in temperaturi' : r.idOras \in IdsOf(orase')
    BY <2>5 DEF Tidy, Consistent, OraseConstraints, TemperaturiConstraints, IdsOf
  <2> QED BY <2>2, <2>3, <2>4, <2>6 DEF StaysGone
<1>3. Spec => [][StaysGone]_vars
  BY <1>1, <1>2, TidyInductive, TypeCorrect, PTL DEF Spec
<1> QED BY <1>3, PTL DEF DeletedStaysGone, StaysGone
-----------------------------------------------------------------------------
(* What a step may remove.                                                 *)

Named(op, id) == answer'.op = op /\ answer'.row.id = id

RemovesNamed ==
  /\ \A id \in IdsOf(tari) : id \notin IdsOf(tari') => Named("delete_country", id)
  /\ \A r \in orase : r.id \notin IdsOf(orase') =>
       Named("delete_city", r.id) \/ Named("delete_country", r.idTara)
  /\ \A r \in temperaturi : r.id \notin IdsOf(temperaturi') =>
       \/ Named("delete_temp", r.id)
       \/ Named("delete_city", r.idOras)
       \/ \E o \in orase : o.id = r.idOras /\ Named("delete_country", o.idTara)

(* The rows of the three tables are still in t, o and m, under their ids.  *)
Keeps(t, o, m) ==
  /\ IdsOf(tari) \subseteq IdsOf(t)
  /\ IdsOf(orase) \subseteq IdsOf(o)
  /\ IdsOf(temperaturi) \subseteq IdsOf(m)

LEMMA KeepsAll ==
  ASSUME Keeps(tari', orase', temperaturi')
  PROVE  RemovesNamed
BY DEF Keeps, RemovesNamed, IdsOf

LEMMA KeepsUnchanged ==
  ASSUME UNCHANGED <<tari, orase, temperaturi>>
  PROVE  RemovesNamed
BY KeepsAll DEF Keeps

LEMMA ExecutedKeeps ==
  ASSUME NEW t, NEW o, NEW m, NEW good, NEW bad, Execute(t, o, m, good, bad), Keeps(t, o, m)
  PROVE  RemovesNamed
BY Executed, KeepsAll DEF Keeps

(* Adding a row and replacing one by another of its id keep all ids.       *)
LEMMA AddingKeeps ==
  ASSUME NEW row
  PROVE  /\ Keeps(tari \cup {row}, orase, temperaturi)
         /\ Keeps(tari, orase \cup {row}, temperaturi)
         /\ Keeps(tari, orase, temperaturi \cup {row})
<1>1. ASSUME NEW rows PROVE IdsOf(rows) \subseteq IdsOf(rows \cup {row})
  BY DEF IdsOf
<1> QED BY <1>1 DEF Keeps

LEMMA ReplacingKeeps ==
  ASSUME NEW row
  PROVE  /\ row.id \in IdsOf(tari) => Keeps(Replace(tari, row), orase, temperaturi)
         /\ row.id \in IdsOf(orase) => Keeps(tari, Replace(orase, row), temperaturi)
         /\ row.id \in IdsOf(temperaturi) => Keeps(tari, orase, Replace(temperaturi, row))
<1>1. ASSUME NEW rows, row.id \in IdsOf(rows)
      PROVE  IdsOf(rows) \subseteq IdsOf(Replace(rows, row))
  BY <1>1 DEF IdsOf, Replace
<1> QED BY <1>1 DEF Keeps

(* What the cascade takes along hung, directly or not, on the deleted row. *)
LEMMA CascadeNamed ==
  ASSUME Tidy
  PROVE  /\ \A id : \A r \in orase :
              r.id \notin IdsOf(OraseLeft(Without(tari, id), orase)) => r.idTara = id
         /\ \A o : \A r \in temperaturi :
              r.id \notin IdsOf(TemperaturiLeft(o, temperaturi)) => r.idOras \notin IdsOf(o)
         /\ \A r \in orase : r.idTara \in IdsOf(tari)
         /\ \A r \in temperaturi : r.idOras \in IdsOf(orase)
<1>1. \A r \in orase : r.idTara \in IdsOf(tari)
  BY DEF Tidy, Consistent, OraseConstraints
<1>2. \A r \in temperaturi : r.idOras \in IdsOf(orase)
  BY DEF Tidy, Consistent, TemperaturiConstraints
<1>3. ASSUME NEW id, NEW r \in orase,
             r.id \notin IdsOf(OraseLeft(Without(tari, id), orase))
      PROVE  r.idTara = id
  <2>1. r.idTara \notin IdsOf(Without(tari, id))
    BY <1>3 DEF OraseLeft, IdsOf
  <2> QED BY <1>1, <2>1 DEF Without, IdsOf
<1>4. ASSUME NEW o, NEW r \in temperaturi,
             r.id \notin IdsOf(TemperaturiLeft(o, temperaturi))
      PROVE  r.idOras \notin IdsOf(o)
  BY <1>4 DEF TemperaturiLeft, IdsOf
<1> QED BY <1>1, <1>2, <1>3, <1>4

LEMMA CountryRemoved ==
  ASSUME Tidy, NEW w \in Threads, delete_country(w)
  PROVE  RemovesNamed
<1>1. PICK id \in RowIds :
        DeleteFrom(tari, "delete_country", id, Without(tari, id), orase)
  BY DEF delete_country
<1> DEFINE t == Without(tari, id)
           o == OraseLeft(t, orase)
           m == TemperaturiLeft(o, temperaturi)
           done == Answer("delete_country", [id |-> id], 200)
<1>2. CASE Execute(t, o, m, done, done)
  <2>1. Named("delete_country", id)
    BY <1>2, Answered DEF Named
  <2>2. CASE UNCHANGED <<tari, orase, temperaturi>>
    BY <2>2, KeepsUnchanged
  <2>3. CASE tari' = t /\ orase' = o /\ temperaturi' = m
    <3>1. \A i \in IdsOf(tari) : i \notin IdsOf(tari') => Named("delete_country", i)
      BY <2>1, <2>3 DEF Without, IdsOf
    <3>2. \A r \in orase : r.id \notin IdsOf(orase') => r.idTara = id
      BY <2>3, CascadeNamed
    <3>3. ASSUME NEW r \in temperaturi, r.id \notin IdsOf(temperaturi')
          PROVE  \E c \in orase : c.id = r.idOras /\ Named("delete_country", c.idTara)
      <4>1. r.idOras \notin IdsOf(orase') /\ r.idOras \in IdsOf(orase)
        BY <2>3, <3>3, CascadeNamed
      <4>2. PICK c \in orase : c.id = r.idOras
        BY <4>1 DEF IdsOf
      <4> QED BY <2>1, <3>2, <4>1, <4>2
    <3> QED BY <2>1, <3>1, <3>2, <3>3 DEF RemovesNamed
  <2> QED BY <1>2, <2>2, <2>3, Executed
<1> QED BY <1>1, <1>2, KeepsUnchanged DEF DeleteFrom

LEMMA CityRemoved ==
  ASSUME Tidy, NEW w \in Threads, delete_city(w)
  PROVE  RemovesNamed
<1>1. PICK id \in RowIds : DeleteFrom(orase, "delete_city", id, tari, Without(orase, id))
  BY DEF delete_city
<1> DEFINE o == OraseLeft(tari, Without(orase, id))
           m == TemperaturiLeft(o, temperaturi)
           done == Answer("delete_city", [id |-> id], 200)
<1>2. CASE Execute(tari, o, m, done, done)
  <2>1. Named("delete_city", id)
    BY <1>2, Answered DEF Named
  <2>2. CASE UNCHANGED <<tari, orase, temperaturi>>
    BY <2>2, KeepsUnchanged
  <2>3. CASE tari' = tari /\ orase' = o /\ temperaturi' = m
    <3>1. \A i \in IdsOf(orase) : i \notin IdsOf(orase') => i = id
      BY <2>3, CascadeNamed DEF OraseLeft, Without, IdsOf
    <3>2. \A r \in orase : r.id \in IdsOf(orase)
      BY DEF IdsOf
    <3>3. \A r \in temperaturi : r.id \notin IdsOf(temperaturi') => r.idOras = id
      BY <2>3, <3>1, CascadeNamed
    <3> QED BY <2>1, <2>3, <3>1, <3>2, <3>3 DEF RemovesNamed
  <2> QED BY <1>2, <2>2, <2>3, Executed
<1> QED BY <1>1, <1>2, KeepsUnchanged DEF DeleteFrom

LEMMA TempRemoved ==
  ASSUME NEW w \in Threads, delete_temp(w)
  PROVE  RemovesNamed
<1>1. CASE UNCHANGED <<tari, orase, temperaturi>>
  BY <1>1, KeepsUnchanged
<1>2. ASSUME NEW id \in RowIds,
             Execute(tari, orase, Without(temperaturi, id),
                     Answer("delete_temp", [id |-> id], 200),
                     Answer("delete_temp", [id |-> id], 200))
      PROVE  RemovesNamed
  <2>1. Named("delete_temp", id)
    BY <1>2, Answered DEF Named
  <2>2. CASE tari' = tari /\ orase' = orase /\ temperaturi' = Without(temperaturi, id)
    BY <2>1, <2>2 DEF RemovesNamed, Without, IdsOf
  <2> QED BY <1>1, <1>2, <2>2, Executed
<1> QED BY <1>1, <1>2 DEF delete_temp

LEMMA RemovesStep ==
  ASSUME Tidy, [Next]_vars
  PROVE  RemovesNamed
<1>1. ASSUME NEW w \in Threads, add_country(w) \/ insert_city(w) \/ insert_temp(w)
      PROVE  RemovesNamed
  <2>1. CASE add_country(w)
    BY <2>1, ExecutedKeeps, AddingKeeps DEF add_country
  <2>2. CASE insert_city(w)
    <3> DEFINE row == [id |-> NewId("orase"), idTara |-> pending[w].idTara,
                       nume |-> pending[w].nume]
    <3>1. Execute(tari, orase \cup {row}, temperaturi,
                  Answer("add_city", row, 201), Answer("add_city", row, 409))
      BY <2>2 DEF insert_city
    <3>2. Keeps(tari, orase \cup {row}, temperaturi)
      BY AddingKeeps
    <3> QED BY <3>1, <3>2, ExecutedKeeps
  <2>3. CASE insert_temp(w)
    BY <2>3, ExecutedKeeps, AddingKeeps DEF insert_temp
  <2> QED BY <1>1, <2>1, <2>2, <2>3
<1>2. ASSUME NEW w \in Threads, modify_country(w) \/ modify_city(w) \/ modify_temp(w)
      PROVE  RemovesNamed
  <2>0. ASSUME NEW rows, NEW op, NEW row, Missing(rows, op, row) PROVE RemovesNamed
    BY <2>0, KeepsUnchanged DEF Missing
  <2>1. CASE modify_country(w)
    <3>1. PICK row \in Tari :
            \/ Missing(tari, "modify_country", row)
            \/ /\ row.id \in IdsOf(tari)
               /\ Execute(Replace(tari, row), orase, temperaturi,
                          Answer("modify_country", row, 200), Answer("modify_country", row, 409))
      BY <2>1 DEF modify_country
    <3> QED BY <2>0, <3>1, ExecutedKeeps, ReplacingKeeps
  <2>2. CASE modify_city(w)
    <3>1. PICK row \in Orase :
            \/ Missing(orase, "modify_city", row)
            \/ /\ row.id \in IdsOf(orase)
               /\ Execute(tari, Replace(orase, row), temperaturi,
                          Answer("modify_city", row, 200), Answer("modify_city", row, 409))
      BY <2>2 DEF modify_city
    <3> QED BY <2>0, <3>1, ExecutedKeeps, ReplacingKeeps
  <2>3. CASE modify_temp(w)
    <3>1. PICK old \in Temperaturi, idOras \in RowIds :
            LET row == [old EXCEPT !.idOras = idOras]
            IN \/ Missing(temperaturi, "modify_temp", row)
               \/ /\ old \in temperaturi
                  /\ Execute(tari, orase, Replace(temperaturi, row),
                             Answer("modify_temp", row, 200), Answer("modify_temp", row, 404))
      BY <2>3 DEF modify_temp
    <3> DEFINE row == [old EXCEPT !.idOras = idOras]
    <3>2. row.id = old.id
      BY DEF Temperaturi
    <3>3. old \in temperaturi => row.id \in IdsOf(temperaturi)
      BY <3>2 DEF IdsOf
    <3> HIDE DEF row
    <3>4. CASE Missing(temperaturi, "modify_temp", row)
      BY <2>0, <3>4
    <3>5. CASE /\ old \in temperaturi
               /\ Execute(tari, orase, Replace(temperaturi, row),
                          Answer("modify_temp", row, 200), Answer("modify_temp", row, 404))
      BY <3>3, <3>5, ExecutedKeeps, ReplacingKeeps
    <3> QED BY <3>1, <3>4, <3>5 DEF row
  <2> QED BY <1>2, <2>1, <2>2, <2>3
<1>3. ASSUME NEW w \in Threads, delete_country(w) \/ delete_city(w) \/ delete_temp(w)
      PROVE  RemovesNamed
  BY <1>3, CountryRemoved, CityRemoved, TempRemoved
<1>4. ASSUME NEW w \in Threads, add_city(w) \/ add_temp(w) PROVE RemovesNamed
  BY <1>4, KeepsUnchanged DEF add_city, add_temp, dbVars
<1>5. CASE Tick
  BY <1>5, KeepsUnchanged DEF Tick
<1>6. CASE UNCHANGED vars
  BY <1>6, KeepsUnchanged DEF vars, dbVars
<1>7. CASE Listing
  BY <1>7, KeepsUnchanged, ListingReads
<1> QED BY <1>1, <1>2, <1>3, <1>4, <1>5, <1>6, <1>7 DEF Next, Request

(* No row is lost but by a request that names it or what it hangs on.      *)
THEOREM OnlyDeletes == Spec => OnlyDeletesRemove
<1>1. Init => Tidy
  BY DEF Init, DbInit, Tidy, Consistent, TariConstraints, OraseConstraints,
         TemperaturiConstraints, KeyUnique
<1>2. Tidy /\ [Next]_vars => [RemovesNamed]_vars
  BY RemovesStep
<1>3. Spec => [][RemovesNamed]_vars
  BY <1>1, <1>2, TidyInductive, PTL DEF Spec
<1> QED BY <1>3, PTL DEF OnlyDeletesRemove, RemovesNamed, Named
-----------------------------------------------------------------------------
(* What the status codes say.                                              *)

(* The ids in the tables were handed out by their sequences.               *)
IdsBelow ==
  /\ \A r \in tari : r.id <= serial["tari"]
  /\ \A r \in orase : r.id <= serial["orase"]
  /\ \A r \in temperaturi : r.id <= serial["temperaturi"]

(* Execute, by what the answer lets a client know.                         *)
LEMMA ExecutedAnswer ==
  ASSUME NEW t, NEW o, NEW m, NEW op, NEW row, NEW good, NEW bad,
         Execute(t, o, m, Answer(op, row, good), Answer(op, row, bad))
  PROVE  /\ answer'.op = op /\ answer'.row = row
         /\ \/ answer'.lost
            \/ /\ Consistent(t, o, m) /\ answer'.code = good
               /\ tari' = t /\ orase' = o /\ temperaturi' = m
            \/ /\ ~Consistent(t, o, m) /\ answer'.code = bad
               /\ UNCHANGED <<tari, orase, temperaturi>>
BY DEF Execute, Write, Answer

(* Why a row is refused that is added, or takes the place of the one with  *)
(* its id.                                                                 *)
LEMMA RefusedCountry ==
  ASSUME Tidy, NEW rows, NEW row, ~Consistent(rows, orase, temperaturi),
         \/ rows = tari \cup {row} /\ \A r \in tari : r.id # row.id
         \/ rows = Replace(tari, row) /\ row.id \in IdsOf(tari)
  PROVE  ClashesIn(tari, row, SameName)
<1>1. \A r, s \in tari : /\ r.id = s.id => r = s
                         /\ r.nume = s.nume => r = s
  BY DEF Tidy, Consistent, TariConstraints, KeyUnique
<1>2. \A r \in rows : r = row \/ (r \in tari /\ r.id # row.id)
  BY DEF Replace
<1>3. KeyUnique(rows)
  BY <1>1, <1>2 DEF KeyUnique
<1>4. IdsOf(tari) \subseteq IdsOf(rows)
  BY DEF IdsOf, Replace
<1>5. OraseConstraints(rows, orase) /\ TemperaturiConstraints(orase, temperaturi)
  BY <1>4 DEF Tidy, Consistent, OraseConstraints
<1>6. PICK r \in rows, s \in rows : r.nume = s.nume /\ r # s
  BY <1>3, <1>5 DEF Consistent, TariConstraints
<1> QED BY <1>1, <1>2, <1>6 DEF ClashesIn, SameName

LEMMA RefusedCity ==
  ASSUME Tidy, NEW rows, NEW row, ~Consistent(tari, rows, temperaturi),
         \/ rows = orase \cup {row} /\ \A r \in orase : r.id # row.id
         \/ rows = Replace(orase, row) /\ row.id \in IdsOf(orase)
  PROVE  ClashesIn(orase, row, SameCity) \/ row.idTara \notin IdsOf(tari)
<1>1. \A r, s \in orase : /\ r.id = s.id => r = s
                          /\ r.idTara = s.idTara /\ r.nume = s.nume => r = s
  BY DEF Tidy, Consistent, OraseConstraints, KeyUnique
<1>2. \A r \in rows : r = row \/ (r \in orase /\ r.id # row.id)
  BY DEF Replace
<1>3. KeyUnique(rows)
  BY <1>1, <1>2 DEF KeyUnique
<1>4. IdsOf(orase) \subseteq IdsOf(rows)
  BY DEF IdsOf, Replace
<1>5. TariConstraints(tari) /\ TemperaturiConstraints(rows, temperaturi)
  BY <1>4 DEF Tidy, Consistent, TemperaturiConstraints
<1>6. \A r \in orase : r.idTara \in IdsOf(tari)
  BY DEF Tidy, Consistent, OraseConstraints
<1>7. CASE \E r, s \in rows : r.idTara = s.idTara /\ r.nume = s.nume /\ r # s
  BY <1>1, <1>2, <1>7 DEF ClashesIn, SameCity
<1>8. CASE \E r \in rows : r.idTara \notin IdsOf(tari)
  BY <1>2, <1>6, <1>8
<1> QED BY <1>3, <1>5, <1>7, <1>8 DEF Consistent, OraseConstraints

LEMMA RefusedReading ==
  ASSUME Tidy, NEW rows, NEW row, ~Consistent(tari, orase, rows),
         \/ rows = temperaturi \cup {row} /\ \A r \in temperaturi : r.id # row.id
         \/ rows = Replace(temperaturi, row)
  PROVE  ClashesIn(temperaturi, row, SameReading) \/ row.idOras \notin IdsOf(orase)
<1>1. \A r, s \in temperaturi : /\ r.id = s.id => r = s
                                /\ r.idOras = s.idOras /\ r.timestamp = s.timestamp => r = s
  BY DEF Tidy, Consistent, TemperaturiConstraints, KeyUnique
<1>2. \A r \in rows : r = row \/ (r \in temperaturi /\ r.id # row.id)
  BY DEF Replace
<1>3. KeyUnique(rows)
  BY <1>1, <1>2 DEF KeyUnique
<1>4. TariConstraints(tari) /\ OraseConstraints(tari, orase)
  BY DEF Tidy, Consistent
<1>5. \A r \in temperaturi : r.idOras \in IdsOf(orase)
  BY DEF Tidy, Consistent, TemperaturiConstraints
<1>6. CASE \E r, s \in rows : r.idOras = s.idOras /\ r.timestamp = s.timestamp /\ r # s
  BY <1>1, <1>2, <1>6 DEF ClashesIn, SameReading
<1>7. CASE \E r \in rows : r.idOras \notin IdsOf(orase)
  BY <1>2, <1>5, <1>7
<1> QED BY <1>3, <1>4, <1>6, <1>7 DEF Consistent, TemperaturiConstraints

(* A cascade never breaks a constraint, so a DELETE is never refused.      *)
LEMMA CascadeAccepted ==
  ASSUME Tidy, NEW t, NEW o, t \subseteq tari, o \subseteq orase
  PROVE  Consistent(t, OraseLeft(t, o), TemperaturiLeft(OraseLeft(t, o), temperaturi))
<1>1. TariConstraints(t)
  BY DEF Tidy, Consistent, TariConstraints, KeyUnique
<1>2. OraseConstraints(t, OraseLeft(t, o))
  BY DEF Tidy, Consistent, OraseConstraints, KeyUnique, OraseLeft
<1>3. ASSUME NEW c PROVE TemperaturiConstraints(c, TemperaturiLeft(c, temperaturi))
  BY DEF Tidy, Consistent, TemperaturiConstraints, KeyUnique, TemperaturiLeft
<1> QED BY <1>1, <1>2, <1>3 DEF Consistent

LEMMA DeleteAccepted ==
  ASSUME Tidy, NEW id
  PROVE  Consistent(tari, orase, Without(temperaturi, id))
BY DEF Tidy, Consistent, TemperaturiConstraints, KeyUnique, Without

LEMMA CountryTold ==
  ASSUME TypeOK, Tidy, IdsBelow, NEW w \in Threads,
         add_country(w) \/ modify_country(w) \/ delete_country(w)
  PROVE  Truthful'
<1>1. CASE add_country(w)
  <2>1. PICK nume \in CountryNames :
          Execute(tari \cup {[id |-> NewId("tari"), nume |-> nume]}, orase, temperaturi,
                  Answer("add_country", [id |-> NewId("tari"), nume |-> nume], 201),
                  Answer("add_country", [id |-> NewId("tari"), nume |-> nume], 409))
    BY <1>1 DEF add_country
  <2> DEFINE row == [id |-> NewId("tari"), nume |-> nume]
  <2>2. \A r \in tari : r.id # row.id
    BY DEF TypeOK, DbTypeOK, Tari, RowIds, Tables, IdsBelow, NewId
  <2>3. ~Consistent(tari \cup {row}, orase, temperaturi) => ClashesIn(tari, row, SameName)
    BY <2>2, RefusedCountry
  <2> HIDE DEF row
  <2>4. /\ answer'.op = "add_country" /\ answer'.row = row
        /\ \/ answer'.lost
           \/ answer'.code = 201 /\ tari' = tari \cup {row}
           \/ /\ ~Consistent(tari \cup {row}, orase, temperaturi)
              /\ answer'.code = 409 /\ UNCHANGED tari
    BY <2>1, ExecutedAnswer DEF row
  <2> QED BY <2>3, <2>4 DEF Truthful, ClashesIn
<1>2. CASE modify_country(w)
  <2>1. PICK row \in Tari :
          \/ Missing(tari, "modify_country", row)
          \/ /\ row.id \in IdsOf(tari)
             /\ Execute(Replace(tari, row), orase, temperaturi,
                        Answer("modify_country", row, 200), Answer("modify_country", row, 409))
    BY <1>2 DEF modify_country
  <2>2. CASE Missing(tari, "modify_country", row)
    BY <2>2 DEF Missing, Answer, Truthful
  <2>3. CASE /\ row.id \in IdsOf(tari)
             /\ Execute(Replace(tari, row), orase, temperaturi,
                        Answer("modify_country", row, 200), Answer("modify_country", row, 409))
    <3>1. ~Consistent(Replace(tari, row), orase, temperaturi) => ClashesIn(tari, row, SameName)
      BY <2>3, RefusedCountry
    <3>2. row \in Replace(tari, row)
      BY DEF Replace
    <3>3. /\ answer'.op = "modify_country" /\ answer'.row = row
          /\ \/ answer'.lost
             \/ answer'.code = 200 /\ tari' = Replace(tari, row)
             \/ /\ ~Consistent(Replace(tari, row), orase, temperaturi)
                /\ answer'.code = 409 /\ UNCHANGED tari
      BY <2>3, ExecutedAnswer
    <3> QED BY <3>1, <3>2, <3>3 DEF Truthful, ClashesIn
  <2> QED BY <2>1, <2>2, <2>3
<1>3. CASE delete_country(w)
  <2>1. PICK id \in RowIds :
          DeleteFrom(tari, "delete_country", id, Without(tari, id), orase)
    BY <1>3 DEF delete_country
  <2> DEFINE t == Without(tari, id)
             o == OraseLeft(t, orase)
             m == TemperaturiLeft(o, temperaturi)
             done == Answer("delete_country", [id |-> id], 200)
  <2>2. CASE /\ id \notin IdsOf(tari) /\ UNCHANGED <<tari, orase, temperaturi>>
             /\ answer' = Answer("delete_country", [id |-> id], 404)
    BY <2>2 DEF Answer, Truthful
  <2>3. CASE Execute(t, o, m, done, done)
    <3>1. Consistent(t, o, m)
      BY CascadeAccepted DEF Without
    <3>2. id \notin IdsOf(t) /\ \A r \in o : r.idTara # id
      BY DEF Without, OraseLeft, IdsOf
    <3> HIDE DEF t, o, m
    <3>3. /\ answer'.op = "delete_country" /\ answer'.row = [id |-> id]
          /\ answer'.lost \/ (answer'.code = 200 /\ tari' = t /\ orase' = o)
      BY <2>3, <3>1, ExecutedAnswer
    <3> QED BY <3>2, <3>3 DEF Truthful, IdsOf
  <2> QED BY <2>1, <2>2, <2>3 DEF DeleteFrom
<1> QED BY <1>1, <1>2, <1>3

LEMMA CityTold ==
  ASSUME TypeOK, Tidy, IdsBelow, NEW w \in Threads,
         add_city(w) \/ insert_city(w) \/ modify_city(w) \/ delete_city(w)
  PROVE  Truthful'
<1>1. CASE add_city(w)
  <2>1. PICK idTara \in RowIds, nume \in CityNames :
          \/ answer' = NoAnswer
          \/ /\ idTara \notin IdsOf(tari)
             /\ answer' = Answer("add_city", [idTara |-> idTara, nume |-> nume], 404)
          \/ answer' = [Answer("add_city", [idTara |-> idTara, nume |-> nume], 404) EXCEPT !.lost = TRUE]
    BY <1>1 DEF add_city
  <2>2. UNCHANGED tari
    BY <1>1 DEF add_city, dbVars
  <2>3. CASE answer' = NoAnswer
    BY <2>3 DEF NoAnswer, Answer, Truthful
  <2>4. CASE /\ idTara \notin IdsOf(tari)
             /\ answer' = Answer("add_city", [idTara |-> idTara, nume |-> nume], 404)
    <3>1. /\ answer'.op = "add_city" /\ answer'.code = 404
          /\ answer'.row.idTara = idTara
      BY <2>4 DEF Answer
    <3>2. answer'.row.idTara \notin IdsOf(tari')
      BY <2>2, <2>4, <3>1
    <3> QED BY <3>1, <3>2 DEF Truthful, ClashesIn
  <2>5. CASE answer' = [Answer("add_city", [idTara |-> idTara, nume |-> nume], 404) EXCEPT !.lost = TRUE]
    BY <2>5 DEF Answer, Truthful
  <2> QED BY <2>1, <2>3, <2>4, <2>5
<1>2. CASE insert_city(w)
  <2> DEFINE row == [id |-> NewId("orase"), idTara |-> pending[w].idTara, nume |-> pending[w].nume]
  <2>1. Execute(tari, orase \cup {row}, temperaturi, Answer("add_city", row, 201), Answer("add_city", row, 409))
    BY <1>2 DEF insert_city
  <2>2. \A r \in orase : r.id # row.id
    BY DEF TypeOK, DbTypeOK, Orase, RowIds, Tables, IdsBelow, NewId
  <2> HIDE DEF row
  <2>3. ~Consistent(tari, orase \cup {row}, temperaturi) =>
          ClashesIn(orase, row, SameCity) \/ row.idTara \notin IdsOf(tari)
    BY <2>2, RefusedCity
  <2>4. /\ answer'.op = "add_city" /\ answer'.row = row
        /\ \/ answer'.lost
           \/ answer'.code = 201 /\ orase' = orase \cup {row}
           \/ /\ ~Consistent(tari, orase \cup {row}, temperaturi)
              /\ answer'.code = 409 /\ UNCHANGED <<tari, orase>>
    BY <2>1, ExecutedAnswer
  <2> QED BY <2>3, <2>4 DEF Truthful, ClashesIn
<1>3. CASE modify_city(w)
  <2>1. PICK row \in Orase :
          \/ Missing(orase, "modify_city", row)
          \/ /\ row.id \in IdsOf(orase)
             /\ Execute(tari, Replace(orase, row), temperaturi,
                        Answer("modify_city", row, 200), Answer("modify_city", row, 409))
    BY <1>3 DEF modify_city
  <2>2. CASE Missing(orase, "modify_city", row)
    BY <2>2 DEF Missing, Answer, Truthful
  <2>3. CASE /\ row.id \in IdsOf(orase)
             /\ Execute(tari, Replace(orase, row), temperaturi,
                        Answer("modify_city", row, 200), Answer("modify_city", row, 409))
    <3>1. ~Consistent(tari, Replace(orase, row), temperaturi) =>
            ClashesIn(orase, row, SameCity) \/ row.idTara \notin IdsOf(tari)
      BY <2>3, RefusedCity
    <3>2. row \in Replace(orase, row)
      BY DEF Replace
    <3>3. /\ answer'.op = "modify_city" /\ answer'.row = row
          /\ \/ answer'.lost
             \/ answer'.code = 200 /\ orase' = Replace(orase, row)
             \/ /\ ~Consistent(tari, Replace(orase, row), temperaturi)
                /\ answer'.code = 409 /\ UNCHANGED <<tari, orase>>
      BY <2>3, ExecutedAnswer
    <3> QED BY <3>1, <3>2, <3>3 DEF Truthful, ClashesIn
  <2> QED BY <2>1, <2>2, <2>3
<1>4. CASE delete_city(w)
  <2>1. PICK id \in RowIds : DeleteFrom(orase, "delete_city", id, tari, Without(orase, id))
    BY <1>4 DEF delete_city
  <2> DEFINE o == OraseLeft(tari, Without(orase, id))
             m == TemperaturiLeft(o, temperaturi)
             done == Answer("delete_city", [id |-> id], 200)
  <2>2. CASE /\ id \notin IdsOf(orase) /\ UNCHANGED <<tari, orase, temperaturi>>
             /\ answer' = Answer("delete_city", [id |-> id], 404)
    BY <2>2 DEF Answer, Truthful
  <2>3. CASE Execute(tari, o, m, done, done)
    <3>1. Consistent(tari, o, m)
      BY CascadeAccepted DEF Without
    <3>2. id \notin IdsOf(o) /\ \A r \in m : r.idOras # id
      BY DEF Without, OraseLeft, TemperaturiLeft, IdsOf
    <3> HIDE DEF o, m
    <3>3. /\ answer'.op = "delete_city" /\ answer'.row = [id |-> id]
          /\ answer'.lost \/ (answer'.code = 200 /\ orase' = o /\ temperaturi' = m)
      BY <2>3, <3>1, ExecutedAnswer
    <3> QED BY <3>2, <3>3 DEF Truthful, IdsOf
  <2> QED BY <2>1, <2>2, <2>3 DEF DeleteFrom
<1> QED BY <1>1, <1>2, <1>3, <1>4

LEMMA ReadingTold ==
  ASSUME TypeOK, Tidy, IdsBelow, NEW w \in Threads,
         add_temp(w) \/ insert_temp(w) \/ modify_temp(w) \/ delete_temp(w)
  PROVE  Truthful'
<1>1. CASE add_temp(w)
  <2>1. PICK idOras \in RowIds :
          \/ answer' = NoAnswer
          \/ /\ idOras \notin IdsOf(orase)
             /\ answer' = Answer("add_temp", [idOras |-> idOras], 404)
          \/ answer' = [Answer("add_temp", [idOras |-> idOras], 404) EXCEPT !.lost = TRUE]
    BY <1>1 DEF add_temp
  <2>2. UNCHANGED orase
    BY <1>1 DEF add_temp, dbVars
  <2>3. CASE answer' = NoAnswer
    BY <2>3 DEF NoAnswer, Answer, Truthful
  <2>4. CASE /\ idOras \notin IdsOf(orase)
             /\ answer' = Answer("add_temp", [idOras |-> idOras], 404)
    <3>1. /\ answer'.op = "add_temp" /\ answer'.code = 404
          /\ answer'.row.idOras = idOras
      BY <2>4 DEF Answer
    <3>2. answer'.row.idOras \notin IdsOf(orase')
      BY <2>2, <2>4, <3>1
    <3> QED BY <3>1, <3>2 DEF Truthful, ClashesIn
  <2>5. CASE answer' = [Answer("add_temp", [idOras |-> idOras], 404) EXCEPT !.lost = TRUE]
    BY <2>5 DEF Answer, Truthful
  <2> QED BY <2>1, <2>3, <2>4, <2>5
<1>2. CASE insert_temp(w)
  <2> DEFINE row == [id |-> NewId("temperaturi"), idOras |-> pending[w].idOras, timestamp |-> clock]
  <2>1. Execute(tari, orase, temperaturi \cup {row}, Answer("add_temp", row, 201), Answer("add_temp", row, 409))
    BY <1>2 DEF insert_temp
  <2>2. \A r \in temperaturi : r.id # row.id
    BY DEF TypeOK, DbTypeOK, Temperaturi, RowIds, Tables, IdsBelow, NewId
  <2> HIDE DEF row
  <2>3. ~Consistent(tari, orase, temperaturi \cup {row}) =>
          ClashesIn(temperaturi, row, SameReading) \/ row.idOras \notin IdsOf(orase)
    BY <2>2, RefusedReading
  <2>4. /\ answer'.op = "add_temp" /\ answer'.row = row
        /\ \/ answer'.lost
           \/ answer'.code = 201 /\ temperaturi' = temperaturi \cup {row}
           \/ /\ ~Consistent(tari, orase, temperaturi \cup {row})
              /\ answer'.code = 409 /\ UNCHANGED <<orase, temperaturi>>
    BY <2>1, ExecutedAnswer
  <2> QED BY <2>3, <2>4 DEF Truthful, ClashesIn
<1>3. CASE modify_temp(w)
  <2>1. PICK old \in Temperaturi, idOras \in RowIds :
          LET row == [old EXCEPT !.idOras = idOras]
          IN  \/ Missing(temperaturi, "modify_temp", row)
              \/ Execute(tari, orase, Replace(temperaturi, row),
                         Answer("modify_temp", row, 200), Answer("modify_temp", row, 404))
    BY <1>3 DEF modify_temp
  <2> DEFINE row == [old EXCEPT !.idOras = idOras]
  <2> HIDE DEF row
  <2>2. CASE Missing(temperaturi, "modify_temp", row)
    BY <2>2 DEF Missing, Answer, Truthful
  <2>3. CASE Execute(tari, orase, Replace(temperaturi, row),
                     Answer("modify_temp", row, 200), Answer("modify_temp", row, 404))
    <3>1. ~Consistent(tari, orase, Replace(temperaturi, row)) =>
            ClashesIn(temperaturi, row, SameReading) \/ row.idOras \notin IdsOf(orase)
      BY RefusedReading
    <3>2. row \in Replace(temperaturi, row)
      BY DEF Replace
    <3>3. /\ answer'.op = "modify_temp" /\ answer'.row = row
          /\ \/ answer'.lost
             \/ answer'.code = 200 /\ temperaturi' = Replace(temperaturi, row)
             \/ /\ ~Consistent(tari, orase, Replace(temperaturi, row))
                /\ answer'.code = 404 /\ UNCHANGED <<orase, temperaturi>>
      BY <2>3, ExecutedAnswer
    <3> QED BY <3>1, <3>2, <3>3 DEF Truthful, ClashesIn
  <2> QED BY <2>1, <2>2, <2>3 DEF row
<1>4. CASE delete_temp(w)
  <2>1. PICK id \in RowIds :
          \/ /\ id \notin IdsOf(temperaturi)
             /\ answer' = Answer("delete_temp", [id |-> id], 404)
             /\ UNCHANGED <<tari, orase, temperaturi>>
          \/ Execute(tari, orase, Without(temperaturi, id),
                     Answer("delete_temp", [id |-> id], 200),
                     Answer("delete_temp", [id |-> id], 200))
    BY <1>4 DEF delete_temp
  <2>2. CASE /\ id \notin IdsOf(temperaturi) /\ UNCHANGED <<tari, orase, temperaturi>>
             /\ answer' = Answer("delete_temp", [id |-> id], 404)
    BY <2>2 DEF Answer, Truthful
  <2>3. CASE Execute(tari, orase, Without(temperaturi, id),
                     Answer("delete_temp", [id |-> id], 200), Answer("delete_temp", [id |-> id], 200))
    <3>1. id \notin IdsOf(Without(temperaturi, id))
      BY DEF Without, IdsOf
    <3>2. /\ answer'.op = "delete_temp" /\ answer'.row = [id |-> id]
          /\ answer'.lost \/ (answer'.code = 200 /\ temperaturi' = Without(temperaturi, id))
      BY <2>3, DeleteAccepted, ExecutedAnswer
    <3> QED BY <3>1, <3>2 DEF Truthful, IdsOf
  <2> QED BY <2>1, <2>2, <2>3
<1> QED BY <1>1, <1>2, <1>3, <1>4

(* The name of a listing says so, and Truthful speaks of no listing.       *)
LEMMA ListingTold ==
  ASSUME Listing
  PROVE  Truthful'
<1>1. ASSUME NEW op \in Listings, NEW rows, Lists(op, rows) PROVE answer'.op \in Listings
  BY <1>1 DEF Lists, Answer
<1>2. ASSUME NEW op \in Listings, NEW rows, ListsReadings(op, rows) PROVE answer'.op \in Listings
  BY <1>2 DEF ListsReadings, Answer
<1>3. answer'.op \in Listings
  <2>1. CASE get_countries
    BY <1>1, <2>1 DEF get_countries, Listings
  <2>2. CASE get_cities_all
    BY <1>1, <2>2 DEF get_cities_all, Listings
  <2>3. CASE get_cities_from_country
    BY <2>3 DEF get_cities_from_country, Answer, Listings
  <2>4. CASE get_temps
    BY <1>2, <2>4 DEF get_temps, Listings
  <2>5. CASE get_temps_for_city
    BY <1>2, <2>5 DEF get_temps_for_city, Listings
  <2>6. CASE get_temps_for_country
    BY <1>2, <2>6 DEF get_temps_for_country, Listings
  <2> QED BY <2>1, <2>2, <2>3, <2>4, <2>5, <2>6 DEF Listing
<1> QED BY <1>3 DEF Truthful, Listings

(* The ids in the tables stay below their sequences.                       *)
LEMMA BelowInductive ==
  ASSUME TypeOK, IdsBelow, [Next]_vars
  PROVE  IdsBelow'
<1>1. \A t \in Tables : serial[t] \in Int /\ serial'[t] \in Int /\ serial'[t] >= serial[t]
  BY AddsNewIds, TypeInductive DEF NewIdsOnly, TypeOK, DbTypeOK
<1>2. \A id \in RowIds : id \in Int
  BY DEF RowIds
<1>3. "tari" \in Tables /\ "orase" \in Tables /\ "temperaturi" \in Tables
  BY DEF Tables
<1>4. \A r \in tari' : r.id <= serial'["tari"]
  BY <1>1, <1>2, <1>3, AddsNewIds DEF NewIdsOnly, IdsBelow, IdsOf, TypeOK, DbTypeOK, Tari
<1>5. \A r \in orase' : r.id <= serial'["orase"]
  BY <1>1, <1>2, <1>3, AddsNewIds DEF NewIdsOnly, IdsBelow, IdsOf, TypeOK, DbTypeOK, Orase
<1>6. \A r \in temperaturi' : r.id <= serial'["temperaturi"]
  BY <1>1, <1>2, <1>3, AddsNewIds
  DEF NewIdsOnly, IdsBelow, IdsOf, TypeOK, DbTypeOK, Temperaturi
<1> QED BY <1>4, <1>5, <1>6 DEF IdsBelow

(* Whatever requests overlap, a status code given while the database could *)
(* be reached is true of the tables at that moment: what 404 says is       *)
(* missing is, what 409 says clashes does, what a DELETE took is gone with *)
(* all that hung on it, and no DELETE of an existing row is refused.       *)
THEOREM AnswersTrue == Spec => AnswersTellTruth
<1>1. Init => Tidy /\ IdsBelow
  BY DEF Init, DbInit, Tidy, Consistent, TariConstraints, OraseConstraints,
         TemperaturiConstraints, KeyUnique, IdsBelow
<1>2. TypeOK /\ Tidy /\ IdsBelow /\ [Next]_vars => IdsBelow'
  BY BelowInductive
<1>3. TypeOK /\ Tidy /\ IdsBelow /\ [Next]_vars => [Truthful']_vars
  <2> SUFFICES ASSUME TypeOK, Tidy, IdsBelow, Next PROVE Truthful'
    OBVIOUS
  <2>1. CASE Tick /\ answer' = NoAnswer /\ UNCHANGED <<pending, acked>>
    BY <2>1 DEF NoAnswer, Answer, Truthful
  <2> QED BY <2>1, CountryTold, CityTold, ReadingTold, ListingTold DEF Next, Request
<1>4. Spec => [][Truthful']_vars
  BY <1>1, <1>2, <1>3, TidyInductive, TypeCorrect, PTL DEF Spec
<1> QED BY <1>4, PTL DEF AnswersTellTruth
=============================================================================
