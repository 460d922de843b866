------------------------------ MODULE Database ------------------------------
(***************************************************************************)
(* The tables of weather-api/init.sql.  A table is a set of rows; the      *)
(* columns lat, lon and valoare, which no constraint and no handler that   *)
(* changes a table looks at, are left out.  Postgres executes one          *)
(* statement at a time as far as these tables are concerned (every handler *)
(* uses autocommit), rejects it if the tables would break a constraint,    *)
(* and never hands out an id twice, even when the statement is rejected.   *)
(***************************************************************************)
EXTENDS Integers, FiniteSets

CONSTANTS
  CountryNames, CityNames,
  MaxId,      \* bound: ids handed out by each of the three sequences
  MaxTime     \* bound: distinct values of CURRENT_TIMESTAMP

ASSUME DatabaseAssumption ==
  /\ MaxId \in Nat \ {0}
  /\ MaxTime \in Nat \ {0}

RowIds == 1..MaxId
Tables == {"tari", "orase", "temperaturi"}

Tari == [id : RowIds, nume : CountryNames]
Orase == [id : RowIds, idTara : RowIds, nume : CityNames]
Temperaturi == [id : RowIds, idOras : RowIds, timestamp : 1..MaxTime]

VARIABLES
  tari, orase, temperaturi,
  serial,      \* the last id each table's sequence handed out
  clock        \* CURRENT_TIMESTAMP

dbVars == <<tari, orase, temperaturi, serial, clock>>

DbTypeOK ==
  /\ tari \subseteq Tari
  /\ orase \subseteq Orase
  /\ temperaturi \subseteq Temperaturi
  /\ serial \in [Tables -> 0..MaxId]
  /\ clock \in 1..MaxTime

DbInit ==
  /\ tari = {} /\ orase = {} /\ temperaturi = {}
  /\ serial = [t \in Tables |-> 0]
  /\ clock = 1

IdsOf(rows) == {r.id : r \in rows}

(* PRIMARY KEY                                                             *)
KeyUnique(rows) == \A r, s \in rows : r.id = s.id => r = s

(* An operator named after another one, with a suffix, is a plausible slip *)
(* in it.                                                                  *)
(* UNIQUE and FOREIGN KEY of the three tables                              *)
TariConstraints(t) ==
  /\ KeyUnique(t)
  /\ \A r, s \in t : r.nume = s.nume => r = s

OraseConstraints(t, o) ==
  /\ KeyUnique(o)
  /\ \A r, s \in o : r.idTara = s.idTara /\ r.nume = s.nume => r = s
  /\ \A r \in o : r.idTara \in IdsOf(t)

TemperaturiConstraints(o, m) ==
  /\ KeyUnique(m)
  /\ \A r, s \in m : r.idOras = s.idOras /\ r.timestamp = s.timestamp => r = s
  /\ \A r \in m : r.idOras \in IdsOf(o)

Consistent(t, o, m) ==
  TariConstraints(t) /\ OraseConstraints(t, o) /\ TemperaturiConstraints(o, m)

(* ON DELETE CASCADE                                                       *)
OraseLeft(t, o) == {r \in o : r.idTara \in IdsOf(t)}
TemperaturiLeft(o, m) == {r \in m : r.idOras \in IdsOf(o)}

(* SERIAL                                                                  *)
HighestId(rows) == IF rows = {} THEN 0 ELSE CHOOSE i \in IdsOf(rows) : \A j \in IdsOf(rows) : j <= i
NewIdAfterHighest(t) ==
  1 + HighestId(CASE t = "tari" -> tari [] t = "orase" -> orase [] OTHER -> temperaturi)
NewIdFromZero(t) == serial[t]
NewId(t) == serial[t] + 1

TakesId(t) ==
  /\ serial[t] < MaxId
  /\ serial' = [serial EXCEPT ![t] = @ + 1]

Tick == clock < MaxTime /\ clock' = clock + 1 /\ UNCHANGED <<tari, orase, temperaturi, serial>>
=============================================================================
