--------------------------- MODULE PaymentsProofs ---------------------------
(***************************************************************************)
(* For any users, names and amounts, and any number of requests, screens   *)
(* and lost calls: types, that a username leads to its owner's account,    *)
(* that a request that says it is paid has been, and that a send screen    *)
(* pays once.                                                              *)
(***************************************************************************)
EXTENDS Payments, SequenceTheorems, FiniteSetTheorems, TLAPS

----------------------------------------------------------------------------
(* Usernames *)

NamesType ==
    /\ row \in [Users -> Names] /\ name \in [Users -> Names]
    /\ naming \in [Users -> Names \cup {NoName}] /\ stored \in [Users -> BOOLEAN]
    /\ syncing \in [Users -> Names \cup {NoName}] /\ astray \subseteq Users

RowsUnique == \A u, v \in Users : row[u] = row[v] => u = v

\* A phone that is changing its name shows the new one once it is stored.
ShownOnceStored == \A u \in Users : naming[u] # NoName /\ stored[u] => name[u] = naming[u]

\* The new name of an account that is not astray is nobody else's, on its way or not.
SoughtAlone ==
    \A u \in Users : naming[u] # NoName /\ u \notin astray =>
        \A v \in Users \ {u} : naming[u] \notin {row[v], name[v], naming[v], syncing[v]}

RowIsShown == \A u \in Users : naming[u] = NoName /\ u \notin astray => row[u] = name[u]

NamesInv == NamesType /\ RowsUnique /\ ShownOnceStored /\ SoughtAlone /\ RowIsShown

\* At the start everyone shows the name the directory has.
LEMMA InitNames == Init => NamesInv
BY NamesAssumption
   DEF Init, NamesInv, NamesType, RowsUnique, ShownOnceStored, SoughtAlone, RowIsShown

\* Nothing but a change of username touches the names.
LEMMA NamesApart ==
    ASSUME NamesInv, UNCHANGED directory
    PROVE  NamesInv'
BY DEF NamesInv, NamesType, RowsUnique, ShownOnceStored, SoughtAlone, RowIsShown, directory

\* A name that is gone for: whoever else has it or is after it is known, and both
\* are said to be astray.
LEMMA GoForName ==
    ASSUME NamesInv, NEW u \in Users, NEW n \in Names, NEW others \in SUBSET (Users \ {u}),
           \A v \in Users \ {u} : n \in {row[v], name[v], naming[v], syncing[v]} => v \in others,
           Naming(u, n, others)
    PROVE  NamesInv'
<1>1. /\ naming' = [naming EXCEPT ![u] = n]
      /\ astray' = astray \cup {v \in others : naming[v] = n} \cup {v \in {u} : others # {}}
      /\ UNCHANGED <<row, name, stored, syncing>>
      /\ ~stored[u] /\ naming[u] = NoName
  BY DEF Naming, Renamed
<1>2. /\ NamesType' /\ astray \subseteq astray' /\ n # NoName
      /\ \A v \in Users : naming'[v] = IF v = u THEN n ELSE naming[v]
  BY <1>1, NamesAssumption DEF NamesInv, NamesType
<1>3. RowsUnique' /\ ShownOnceStored' /\ RowIsShown'
  BY <1>1, <1>2 DEF NamesInv, RowsUnique, ShownOnceStored, RowIsShown
<1>4. SoughtAlone'
  <2> SUFFICES ASSUME NEW w \in Users, naming'[w] # NoName, w \notin astray',
                      NEW v \in Users \ {w}
               PROVE  naming'[w] \notin {row[v], name[v], naming'[v], syncing[v]}
    BY <1>1 DEF SoughtAlone
  <2>1. CASE w = u
    <3>1. others = {} /\ naming'[w] = n /\ naming'[v] = naming[v]
      BY <1>1, <1>2, <2>1
    <3>2. QED
      BY <2>1, <3>1
  <2>2. CASE w # u
    <3>1. /\ naming'[w] = naming[w]
          /\ naming[w] \notin {row[v], name[v], naming[v], syncing[v]}
      BY <1>2, <2>2 DEF NamesInv, SoughtAlone
    <3>2. v = u => naming[w] # n
      BY <1>1, <2>2
    <3>3. QED
      BY <1>2, <3>1, <3>2
  <2>3. QED
    BY <2>1, <2>2
<1>5. QED
  BY <1>2, <1>3, <1>4 DEF NamesInv

\* changeUsername keeps the names, whether the look-up was answered or failed.
LEMMA AskNames ==
    ASSUME NamesInv, NEW u \in Users, NEW n \in Names, ChangeUsername(u, n)
    PROVE  NamesInv'
<1>1. CASE (\A v \in Users : row[v] # n) /\ Naming(u, n, Rivals(u, n))
  <2>1. /\ Rivals(u, n) \in SUBSET (Users \ {u})
        /\ \A v \in Users \ {u} :
              n \in {row[v], name[v], naming[v], syncing[v]} => v \in Rivals(u, n)
    BY <1>1 DEF Rivals
  <2>2. QED
    BY <1>1, <2>1, GoForName
<1>2. CASE Naming(u, n, Owners(u, n) \cup Rivals(u, n))
  <2> DEFINE others == Owners(u, n) \cup Rivals(u, n)
  <2>1. /\ others \in SUBSET (Users \ {u})
        /\ \A v \in Users \ {u} :
              n \in {row[v], name[v], naming[v], syncing[v]} => v \in others
    BY DEF Owners, Rivals
  <2>2. Naming(u, n, others)
    BY <1>2
  <2> HIDE DEF others
  <2>3. QED
    BY <2>1, <2>2, GoForName
<1>3. QED
  BY <1>1, <1>2 DEF ChangeUsername

\* Storing a name on the phone keeps the names.
LEMMA StoreNames ==
    ASSUME NamesInv, NEW u \in Users, StoreName(u)
    PROVE  NamesInv'
<1>1. /\ naming[u] # NoName
      /\ name' = [name EXCEPT ![u] = naming[u]] /\ stored' = [stored EXCEPT ![u] = TRUE]
      /\ UNCHANGED <<row, naming, syncing, astray>>
  BY DEF StoreName
<1>2. /\ NamesType'
      /\ \A v \in Users : name'[v] = IF v = u THEN naming[u] ELSE name[v]
      /\ \A v \in Users : stored'[v] = (v = u \/ stored[v])
  BY <1>1 DEF NamesInv, NamesType
<1>3. RowsUnique' /\ ShownOnceStored' /\ RowIsShown'
  BY <1>1, <1>2 DEF NamesInv, RowsUnique, ShownOnceStored, RowIsShown
<1>4. SoughtAlone'
  BY <1>1, <1>2 DEF NamesInv, SoughtAlone
<1>5. QED
  BY <1>2, <1>3, <1>4 DEF NamesInv

\* A row that is written with a name nobody else has.
LEMMA RowWritten ==
    ASSUME NamesInv, NEW u \in Users, NEW n \in Names, Free(u, n),
           row' = [row EXCEPT ![u] = n]
    PROVE  /\ row' \in [Users -> Names] /\ RowsUnique'
           /\ \A v \in Users : row'[v] = IF v = u THEN n ELSE row[v]
<1>1. row' \in [Users -> Names] /\ \A v \in Users : row'[v] = IF v = u THEN n ELSE row[v]
  BY DEF NamesInv, NamesType
<1>2. RowsUnique'
  BY <1>1 DEF NamesInv, RowsUnique, Free
<1>3. QED
  BY <1>1, <1>2

\* registerUser keeps the names: a name that is refused was astray before.
LEMMA RegisterNames ==
    ASSUME NamesInv, NEW u \in Users, RegisterUser(u)
    PROVE  NamesInv'
<1>1. /\ naming[u] # NoName /\ stored[u]
      /\ naming' = [naming EXCEPT ![u] = NoName] /\ UNCHANGED <<name, stored, syncing>>
  BY DEF RegisterUser
<1>2. /\ name[u] = naming[u] /\ name[u] \in Names
      /\ \A v \in Users : naming'[v] = IF v = u THEN NoName ELSE naming[v]
  BY <1>1 DEF NamesInv, NamesType, ShownOnceStored
<1>3. ShownOnceStored' /\ naming' \in [Users -> Names \cup {NoName}]
  BY <1>1, <1>2 DEF NamesInv, NamesType, ShownOnceStored
<1>4. CASE Free(u, name[u]) /\ row' = [row EXCEPT ![u] = name[u]] /\ astray' = astray \ {u}
  <2>1. /\ row' \in [Users -> Names] /\ RowsUnique'
        /\ \A v \in Users : row'[v] = IF v = u THEN name[u] ELSE row[v]
    BY <1>2, <1>4, RowWritten
  <2>2. NamesType'
    BY <1>1, <1>3, <1>4, <2>1 DEF NamesInv, NamesType
  <2>3. RowIsShown'
    BY <1>1, <1>2, <1>4, <2>1 DEF NamesInv, RowIsShown
  <2>4. SoughtAlone'
    BY <1>1, <1>2, <1>4, <2>1 DEF NamesInv, SoughtAlone
  <2>5. QED
    BY <1>3, <2>1, <2>2, <2>3, <2>4 DEF NamesInv
<1>5. CASE ~Free(u, name[u]) /\ UNCHANGED <<row, astray>>
  <2>1. u \in astray
    BY <1>1, <1>2, <1>5 DEF NamesInv, SoughtAlone, Free
  <2>2. NamesType' /\ RowsUnique'
    BY <1>1, <1>3, <1>5 DEF NamesInv, NamesType, RowsUnique
  <2>3. RowIsShown' /\ SoughtAlone'
    BY <1>1, <1>2, <1>5, <2>1 DEF NamesInv, RowIsShown, SoughtAlone
  <2>4. QED
    BY <1>3, <2>2, <2>3 DEF NamesInv
<1>6. CASE astray' = astray \cup {u} /\ UNCHANGED row
  <2>1. NamesType' /\ RowsUnique'
    BY <1>1, <1>3, <1>6 DEF NamesInv, NamesType, RowsUnique
  <2>2. RowIsShown' /\ SoughtAlone'
    BY <1>1, <1>2, <1>6 DEF NamesInv, RowIsShown, SoughtAlone
  <2>3. QED
    BY <1>3, <2>1, <2>2 DEF NamesInv
<1>7. QED
  BY <1>4, <1>5, <1>6 DEF RegisterUser

\* The start of the app keeps the names: it registers the name that is shown.
LEMMA BootNames ==
    ASSUME NamesInv, NEW u \in Users, Boot(u)
    PROVE  NamesInv'
<1>1. /\ naming[u] = NoName /\ Free(u, name[u])
      /\ row' = [row EXCEPT ![u] = name[u]] /\ astray' = astray \ {u}
      /\ UNCHANGED <<name, naming, stored, syncing>>
  BY DEF Boot
<1>2. name[u] \in Names
  BY DEF NamesInv, NamesType
<1>3. /\ row' \in [Users -> Names] /\ RowsUnique'
      /\ \A v \in Users : row'[v] = IF v = u THEN name[u] ELSE row[v]
  BY <1>1, <1>2, RowWritten
<1>4. NamesType' /\ ShownOnceStored'
  BY <1>1, <1>3 DEF NamesInv, NamesType, ShownOnceStored
<1>5. RowIsShown' /\ SoughtAlone'
  BY <1>1, <1>3 DEF NamesInv, RowIsShown, SoughtAlone
<1>6. QED
  BY <1>3, <1>4, <1>5 DEF NamesInv

\* An edit of the profile that begins keeps the names.
LEMMA UpdateNames ==
    ASSUME NamesInv, NEW u \in Users, UpdateProfile(u)
    PROVE  NamesInv'
<1>1. /\ syncing' = [syncing EXCEPT ![u] = name[u]]
      /\ UNCHANGED <<row, name, naming, stored, astray>>
  BY DEF UpdateProfile
<1>2. /\ NamesType'
      /\ \A v \in Users : syncing'[v] = IF v = u THEN name[u] ELSE syncing[v]
  BY <1>1 DEF NamesInv, NamesType
<1>3. RowsUnique' /\ ShownOnceStored' /\ RowIsShown'
  BY <1>1 DEF NamesInv, RowsUnique, ShownOnceStored, RowIsShown
<1>4. SoughtAlone'
  BY <1>1, <1>2 DEF NamesInv, SoughtAlone
<1>5. QED
  BY <1>2, <1>3, <1>4 DEF NamesInv

\* syncProfile keeps the names: an account whose row it changes to a name that is
\* not the one shown is said to be astray.
LEMMA SyncNames ==
    ASSUME NamesInv, NEW u \in Users, SyncProfile(u)
    PROVE  NamesInv'
<1>1. /\ syncing[u] # NoName /\ syncing' = [syncing EXCEPT ![u] = NoName]
      /\ UNCHANGED <<name, naming, stored>>
  BY DEF SyncProfile
<1>2. /\ syncing[u] \in Names /\ syncing' \in [Users -> Names \cup {NoName}]
      /\ \A v \in Users : syncing'[v] = IF v = u THEN NoName ELSE syncing[v]
  BY <1>1 DEF NamesInv, NamesType
<1>3. ShownOnceStored'
  BY <1>1 DEF NamesInv, ShownOnceStored
<1>4. CASE UNCHANGED <<row, astray>>
  <2>1. NamesType' /\ RowsUnique' /\ RowIsShown'
    BY <1>1, <1>2, <1>4 DEF NamesInv, NamesType, RowsUnique, RowIsShown
  <2>2. SoughtAlone'
    BY <1>1, <1>2, <1>4 DEF NamesInv, SoughtAlone
  <2>3. QED
    BY <1>3, <2>1, <2>2 DEF NamesInv
<1>5. CASE /\ Free(u, syncing[u]) /\ row' = [row EXCEPT ![u] = syncing[u]]
           /\ astray' = IF naming[u] = NoName /\ syncing[u] = name[u]
                        THEN astray \ {u} ELSE astray \cup {u}
  <2>1. /\ row' \in [Users -> Names] /\ RowsUnique'
        /\ \A v \in Users : row'[v] = IF v = u THEN syncing[u] ELSE row[v]
    BY <1>2, <1>5, RowWritten
  <2>2. NamesType'
    BY <1>1, <1>2, <1>5, <2>1 DEF NamesInv, NamesType
  <2>3. RowIsShown'
    BY <1>1, <1>5, <2>1 DEF NamesInv, RowIsShown
  <2>4. SoughtAlone'
    BY <1>1, <1>2, <1>5, <2>1 DEF NamesInv, SoughtAlone
  <2>5. QED
    BY <1>3, <2>1, <2>2, <2>3, <2>4 DEF NamesInv
<1>6. QED
  BY <1>4, <1>5 DEF SyncProfile

\* Every step keeps the names.
LEMMA StepNames == NamesInv /\ [Next]_vars => NamesInv'
<1> SUFFICES ASSUME NamesInv, [Next]_vars
             PROVE  NamesInv'
  OBVIOUS
<1>1. ASSUME NEW u \in Users, NEW n \in Names, ChangeUsername(u, n)
      PROVE  NamesInv'
  BY <1>1, AskNames
<1>2. ASSUME NEW u \in Users,
             \/ StoreName(u) \/ RegisterUser(u) \/ Boot(u)
             \/ UpdateProfile(u) \/ SyncProfile(u)
      PROVE  NamesInv'
  BY <1>2, StoreNames, RegisterNames, BootNames, UpdateNames, SyncNames
<1>3. ASSUME UNCHANGED directory
      PROVE  NamesInv'
  BY <1>3, NamesApart
<1>4. ASSUME NEW u \in Users, NEW to, NEW amount, OnAsk(u, to, amount)
      PROVE  UNCHANGED directory
  BY <1>4 DEF OnAsk, CreateRequest
<1>5. ASSUME NEW u \in Users, LoadRequests(u) \/ OpenSend(u)
      PROVE  UNCHANGED directory
  BY <1>5 DEF LoadRequests, OpenSend, Open
<1>6. ASSUME NEW u \in Users, NEW r, OnDecline(u, r) \/ PayCard(u, r) \/ OnPressRow(u, r)
      PROVE  UNCHANGED directory
  BY <1>6 DEF OnDecline, PayCard, OnPressRow, Open
<1>7. ASSUME NEW p, Patch(p)
      PROVE  UNCHANGED directory
  BY <1>7 DEF Patch
<1>8. ASSUME NEW s, NEW to, NEW amount, OnSend(s, to, amount)
      PROVE  UNCHANGED directory
  BY <1>8 DEF OnSend, OnSendAt
<1>9. ASSUME NEW s, SendMoney(s) \/ Refuse(s) \/ Sent(s) \/ NotSent(s) \/ Lost(s)
      PROVE  UNCHANGED directory
  BY <1>9 DEF SendMoney, Refuse, Sent, NotSent, Lost
<1>10. ASSUME NEW tx, Land(tx) \/ Drop(tx)
       PROVE  UNCHANGED directory
  BY <1>10 DEF Land, Drop
<1>11. CASE UNCHANGED vars
  BY <1>3, <1>11 DEF vars
<1>12. QED
  BY <1>1, <1>2, <1>3, <1>4, <1>5, <1>6, <1>7, <1>8, <1>9, <1>10, <1>11 DEF Next

\* A username that a phone shows leads to its owner's account and to no other, for
\* any users and any names; not the names of the accounts that are astray.
THEOREM NamesLeadHome == Spec => []NameLeadsHome
<1>1. NamesInv => NameLeadsHome
  BY NamesAssumption
     DEF NamesInv, NamesType, RowsUnique, RowIsShown, NameLeadsHome, Destinations
<1>2. QED
  BY <1>1, InitNames, StepNames, PTL DEF Spec

----------------------------------------------------------------------------
(* Types *)

Request == [from : Users, to : Users, amount : Amounts, status : Statuses]
Screen == [user : Users, req : {NoRequest} \cup DOMAIN table, to : Users,
           amount : {NoAmount} \cup Amounts, edited : BOOLEAN, step : Steps]
Payment == [screen : DOMAIN screens, from : Users, to : Users, amount : Amounts, seq : Nat,
            awaited : BOOLEAN]

RequestTypes ==
    /\ table \in Seq(Request)
    /\ list \in [Users -> SUBSET (DOMAIN table)]
    /\ patches \subseteq [req : DOMAIN table, status : Statuses]

LedgerTypes ==
    /\ txs \subseteq Payment /\ payments \subseteq Payment
    /\ seq \in [Users -> Nat] /\ balance \in [Users -> Nat]

\* Past the form, an amount has been typed.
AmountsTyped == \A s \in DOMAIN screens : screens[s].step # "form" => screens[s].amount \in Amounts

\* A screen waits for one transaction at most, the one it has sent.
Awaits ==
    /\ \A tx \in txs : tx.awaited =>
          /\ screens[tx.screen].step = "sending"
          /\ tx.from = screens[tx.screen].user /\ tx.to = screens[tx.screen].to
          /\ tx.amount = screens[tx.screen].amount
    /\ \A tx, other \in txs :
          tx.awaited /\ other.awaited /\ tx.screen = other.screen => tx = other

PayInv == RequestTypes /\ screens \in Seq(Screen) /\ AmountsTyped /\ LedgerTypes /\ Awaits

FlagTypes == slip \in BOOLEAN /\ faults \in 0 .. MaxFaults

\* The invariant of requests, screens and the ledger holds at the start.
LEMMA InitPay == Init => PayInv
<1> SUFFICES ASSUME Init
             PROVE  PayInv
  OBVIOUS
<1>1. table = <<>> /\ screens = <<>> /\ patches = {} /\ txs = {} /\ payments = {}
  BY DEF Init
<1>2. table \in Seq(Request) /\ screens \in Seq(Screen)
  BY <1>1
<1>3. list \in [Users -> SUBSET (DOMAIN table)]
  BY DEF Init
<1>4. AmountsTyped
  BY <1>1 DEF AmountsTyped
<1>5. LedgerTypes
  BY <1>1, AmountsAssumption DEF LedgerTypes, Init
<1>6. Awaits
  BY <1>1 DEF Awaits
<1>7. QED
  BY <1>1, <1>2, <1>3, <1>4, <1>5, <1>6 DEF PayInv, RequestTypes

\* What an update of one screen leaves.
LEMMA OneScreen ==
    ASSUME screens \in Seq(Screen), NEW s \in DOMAIN screens, NEW scr \in Screen,
           screens' = [screens EXCEPT ![s] = scr]
    PROVE  /\ screens' \in Seq(Screen)
           /\ DOMAIN screens' = DOMAIN screens
           /\ \A i \in DOMAIN screens : screens'[i] = IF i = s THEN scr ELSE screens[i]
<1>1. DOMAIN screens = 1 .. Len(screens)
  BY LenProperties
<1>2. screens' \in Seq(Screen) /\ Len(screens') = Len(screens)
  BY <1>1, ExceptSeq
<1>3. DOMAIN screens' = 1 .. Len(screens')
  BY <1>2, LenProperties
<1>4. QED
  BY <1>1, <1>2, <1>3, ExceptSeq

\* A screen that was opened has the type of screens.
LEMMA ScreenType ==
    ASSUME screens \in Seq(Screen), NEW s \in DOMAIN screens
    PROVE  screens[s] \in Screen
<1>1. DOMAIN screens = 1 .. Len(screens)
  BY LenProperties
<1>2. QED
  BY <1>1, ElementOfSeq

\* A request that was made has the type of requests.
LEMMA RequestType ==
    ASSUME table \in Seq(Request), NEW r \in DOMAIN table
    PROVE  table[r] \in Request
<1>1. DOMAIN table = 1 .. Len(table)
  BY LenProperties
<1>2. QED
  BY <1>1, ElementOfSeq

\* A screen goes on to another step: nothing else in it changes.
LEMMA GotoStep ==
    ASSUME screens \in Seq(Screen), NEW s \in DOMAIN screens, NEW step \in Steps, Goto(s, step)
    PROVE  /\ screens' \in Seq(Screen) /\ DOMAIN screens' = DOMAIN screens
           /\ \A i \in DOMAIN screens : i # s => screens'[i] = screens[i]
           /\ screens'[s] = [screens[s] EXCEPT !.step = step]
           /\ screens'[s].step = step
           /\ screens'[s].user = screens[s].user /\ screens'[s].req = screens[s].req
           /\ screens'[s].to = screens[s].to /\ screens'[s].amount = screens[s].amount
           /\ screens'[s].edited = screens[s].edited
<1> DEFINE scr == [screens[s] EXCEPT !.step = step]
<1>1. screens[s] \in Screen
  BY ScreenType
<1>2. /\ scr \in Screen /\ scr.step = step
      /\ scr.user = screens[s].user /\ scr.req = screens[s].req /\ scr.to = screens[s].to
      /\ scr.amount = screens[s].amount /\ scr.edited = screens[s].edited
  BY <1>1 DEF Screen
<1>3. screens' = [screens EXCEPT ![s] = scr]
  BY DEF Goto
<1> HIDE DEF scr
<1>4. /\ screens' \in Seq(Screen) /\ DOMAIN screens' = DOMAIN screens
      /\ \A i \in DOMAIN screens : screens'[i] = IF i = s THEN scr ELSE screens[i]
  BY <1>2, <1>3, OneScreen
<1>5. scr = [screens[s] EXCEPT !.step = step]
  BY DEF scr
<1>6. QED
  BY <1>2, <1>4, <1>5

\* With the same requests, screens and ledger.
LEMMA PayApart ==
    ASSUME PayInv, UNCHANGED <<requests, screens, ledger>>
    PROVE  PayInv'
<1> USE DEF requests, ledger
<1>1. Screen' = Screen /\ Payment' = Payment
  BY DEF Screen, Payment
<1>2. QED
  BY <1>1 DEF PayInv, RequestTypes, LedgerTypes, AmountsTyped, Awaits, Request

\* The ledger and the screens when only requests change.
LEMMA PayOfRequests ==
    ASSUME PayInv, RequestTypes', UNCHANGED <<screens, ledger>>,
           DOMAIN table \subseteq DOMAIN table'
    PROVE  PayInv'
<1> USE DEF ledger
<1>1. Screen \subseteq Screen' /\ Payment' = Payment
  BY DEF Screen, Payment
<1>2. screens' \in Seq(Screen')
  BY <1>1, SeqMonotonic DEF PayInv
<1>3. QED
  BY <1>1, <1>2 DEF PayInv, LedgerTypes, AmountsTyped, Awaits

\* createRequest appends a row that is pending.
LEMMA CreatePay ==
    ASSUME PayInv, NEW u \in Users, NEW v \in Users, NEW amount \in Amounts,
           CreateRequest(u, v, amount)
    PROVE  /\ PayInv'
           /\ DOMAIN table \subseteq DOMAIN table'
           /\ \A r \in DOMAIN table : table'[r] = table[r]
           /\ \A r \in DOMAIN table' : r \in DOMAIN table \/ table'[r].status = "pending"
<1> DEFINE q == [from |-> u, to |-> v, amount |-> amount, status |-> "pending"]
<1>1. table' = Append(table, q) /\ UNCHANGED <<list, patches, screens, ledger>>
  BY DEF CreateRequest
<1>2. q \in Request /\ q.status = "pending"
  BY DEF Request, Statuses
<1>3. table \in Seq(Request) /\ DOMAIN table = 1 .. Len(table) /\ Len(table) \in Nat
  BY LenProperties DEF PayInv, RequestTypes
<1> HIDE DEF q
<1>4. /\ table' \in Seq(Request) /\ Len(table') = Len(table) + 1
      /\ \A r \in 1 .. Len(table) : table'[r] = table[r]
      /\ table'[Len(table) + 1] = q
  BY <1>1, <1>2, <1>3, AppendProperties
<1>5. DOMAIN table' = 1 .. Len(table) + 1
  BY <1>4, LenProperties
<1>6. DOMAIN table \subseteq DOMAIN table'
  BY <1>3, <1>5
<1>7. RequestTypes'
  <2>1. list' \in [Users -> SUBSET (DOMAIN table')]
    BY <1>1, <1>6 DEF PayInv, RequestTypes
  <2>2. patches' \subseteq [req : DOMAIN table', status : Statuses]
    BY <1>1, <1>6 DEF PayInv, RequestTypes
  <2>3. Request' = Request
    BY DEF Request
  <2>4. QED
    BY <1>4, <2>1, <2>2, <2>3 DEF RequestTypes
<1>8. PayInv'
  BY <1>1, <1>6, <1>7, PayOfRequests
<1>9. QED
  BY <1>2, <1>3, <1>4, <1>5, <1>6, <1>8

\* A list that is loaded names rows of the table.
LEMMA LoadPay ==
    ASSUME PayInv, NEW u \in Users, LoadRequests(u)
    PROVE  PayInv'
<1>1. /\ list' = [list EXCEPT ![u] =
             {r \in DOMAIN table : table[r].to = u /\ table[r].status = "pending"}]
      /\ UNCHANGED <<table, patches, screens, ledger>>
  BY DEF LoadRequests
<1>2. list' \in [Users -> SUBSET (DOMAIN table)]
  BY <1>1 DEF PayInv, RequestTypes
<1>3. RequestTypes'
  BY <1>1, <1>2 DEF PayInv, RequestTypes, Request
<1>4. QED
  BY <1>1, <1>3, PayOfRequests

\* onDecline sends a status on its way.
LEMMA DeclinePay ==
    ASSUME PayInv, NEW u \in Users, NEW r \in DOMAIN table, OnDecline(u, r)
    PROVE  PayInv'
<1>1. /\ list' = [list EXCEPT ![u] = @ \ {r}]
      /\ patches' = patches \cup {[req |-> r, status |-> "declined"]}
      /\ UNCHANGED <<table, screens, ledger>>
  BY DEF OnDecline
<1>2. list' \in [Users -> SUBSET (DOMAIN table)]
  BY <1>1 DEF PayInv, RequestTypes
<1>3. patches' \subseteq [req : DOMAIN table, status : Statuses]
  BY <1>1 DEF PayInv, RequestTypes, Statuses
<1>4. RequestTypes'
  BY <1>1, <1>2, <1>3 DEF PayInv, RequestTypes, Request
<1>5. QED
  BY <1>1, <1>4, PayOfRequests

\* A status is written, or nothing: the rest of every request stays.
LEMMA PatchPay ==
    ASSUME PayInv, NEW p \in patches, Patch(p)
    PROVE  /\ PayInv'
           /\ DOMAIN table' = DOMAIN table
           /\ \A r \in DOMAIN table :
                 /\ table'[r].from = table[r].from /\ table'[r].to = table[r].to
                 /\ table'[r].amount = table[r].amount
                 /\ table'[r].status # table[r].status => r = p.req /\ table'[r].status = p.status
<1>1. p \in [req : DOMAIN table, status : Statuses]
  BY DEF PayInv, RequestTypes
<1>2. patches' \subseteq patches /\ UNCHANGED <<list, screens, ledger>>
  BY DEF Patch
<1>3. CASE table' = [table EXCEPT ![p.req].status = p.status]
  <2> DEFINE q == [table[p.req] EXCEPT !.status = p.status]
  <2>1. table \in Seq(Request) /\ p.req \in DOMAIN table /\ DOMAIN table = 1 .. Len(table)
    BY <1>1, LenProperties DEF PayInv, RequestTypes
  <2>2. table[p.req] \in Request
    BY <2>1, RequestType
  <2>3. /\ q \in Request /\ q.status = p.status /\ q.from = table[p.req].from
        /\ q.to = table[p.req].to /\ q.amount = table[p.req].amount
    BY <1>1, <2>2 DEF Request
  <2>4. table' = [table EXCEPT ![p.req] = q]
    BY <1>3
  <2> HIDE DEF q
  <2>5. /\ table' \in Seq(Request) /\ Len(table') = Len(table)
        /\ \A r \in 1 .. Len(table) : table'[r] = IF r = p.req THEN q ELSE table[r]
    BY <2>1, <2>3, <2>4, ExceptSeq
  <2>6. DOMAIN table' = DOMAIN table
    BY <2>1, <2>5, LenProperties
  <2>7. RequestTypes'
    BY <1>2, <2>5, <2>6 DEF PayInv, RequestTypes, Request
  <2>8. PayInv'
    BY <1>2, <2>6, <2>7, PayOfRequests
  <2>9. QED
    BY <2>1, <2>3, <2>5, <2>6, <2>8
<1>4. CASE UNCHANGED table
  <2>1. RequestTypes'
    BY <1>2, <1>4 DEF PayInv, RequestTypes, Request
  <2>2. QED
    BY <1>2, <1>4, <2>1, PayOfRequests
<1>5. QED
  BY <1>3, <1>4 DEF Patch

\* A step of one screen, or a new screen.
LEMMA PayOfScreens ==
    ASSUME PayInv, screens' \in Seq(Screen), DOMAIN screens \subseteq DOMAIN screens',
           AmountsTyped', Awaits', UNCHANGED <<requests, ledger>>
    PROVE  PayInv'
<1> USE DEF requests, ledger
<1>1. Screen' = Screen /\ Payment \subseteq Payment'
  BY DEF Screen, Payment
<1>2. QED
  BY <1>1 DEF PayInv, RequestTypes, LedgerTypes, Request

\* Open appends a blank form.
LEMMA OpenPay ==
    ASSUME PayInv, NEW u \in Users, NEW r \in {NoRequest} \cup DOMAIN table, Open(u, r)
    PROVE  /\ PayInv'
           /\ DOMAIN screens \subseteq DOMAIN screens'
           /\ \A s \in DOMAIN screens : screens'[s] = screens[s]
           /\ \A s \in DOMAIN screens' \ DOMAIN screens :
                 screens'[s].step = "form" /\ screens'[s].user = u /\ screens'[s].req = r
<1> DEFINE scr == [user |-> u, req |-> r, to |-> u, amount |-> NoAmount, edited |-> FALSE,
                   step |-> "form"]
<1>1. screens' = Append(screens, scr) /\ UNCHANGED <<requests, ledger>>
  BY DEF Open
<1>2. scr \in Screen /\ scr.step = "form" /\ scr.user = u /\ scr.req = r
  BY DEF Screen, Steps
<1>3. screens \in Seq(Screen) /\ DOMAIN screens = 1 .. Len(screens) /\ Len(screens) \in Nat
  BY LenProperties DEF PayInv
<1> HIDE DEF scr
<1>4. /\ screens' \in Seq(Screen) /\ Len(screens') = Len(screens) + 1
      /\ \A s \in 1 .. Len(screens) : screens'[s] = screens[s]
      /\ screens'[Len(screens) + 1] = scr
  BY <1>1, <1>2, <1>3, AppendProperties
<1>5. DOMAIN screens' = 1 .. Len(screens) + 1
  BY <1>4, LenProperties
<1>6. DOMAIN screens \subseteq DOMAIN screens' /\ \A s \in DOMAIN screens : screens'[s] = screens[s]
  BY <1>3, <1>4, <1>5
<1>7. \A s \in DOMAIN screens' \ DOMAIN screens : screens'[s] = scr
  BY <1>3, <1>4, <1>5
<1>8. AmountsTyped'
  BY <1>2, <1>6, <1>7 DEF AmountsTyped, PayInv
<1>9. Awaits'
  <2>1. txs' = txs /\ \A tx \in txs : tx.screen \in DOMAIN screens
    BY <1>1 DEF ledger, PayInv, LedgerTypes, Payment
  <2>2. QED
    BY <1>6, <2>1 DEF Awaits, PayInv
<1>10. PayInv'
  BY <1>1, <1>4, <1>6, <1>8, <1>9, PayOfScreens
<1>11. QED
  BY <1>2, <1>6, <1>7, <1>10

\* onSend fills a form, and notes what was typed over.
LEMMA SendPay ==
    ASSUME PayInv, NEW s \in DOMAIN screens, NEW to, NEW amount \in Amounts,
           OnSend(s, to, amount)
    PROVE  /\ PayInv' /\ DOMAIN screens' = DOMAIN screens
           /\ screens[s].step = "form" /\ screens'[s].step = "asked"
           /\ \A i \in DOMAIN screens : i # s => screens'[i] = screens[i]
           /\ screens'[s].user = screens[s].user /\ screens'[s].req = screens[s].req
           /\ screens'[s].edited =
                 TypedOver(screens[s].req, screens'[s].to, screens'[s].amount)
<1>1. /\ screens[s].step = "form" /\ UNCHANGED <<requests, ledger>>
  BY DEF OnSend, OnSendAt
<1>2. PICK v \in Destinations(to) \ {screens[s].user} :
         screens' = [screens EXCEPT ![s] =
             [@ EXCEPT !.to = v, !.amount = amount, !.step = "asked",
                       !.edited = TypedOver(screens[s].req, v, amount)]]
  BY DEF OnSend, OnSendAt
<1>3. v \in Users
  BY <1>2 DEF Destinations
<1> DEFINE over == TypedOver(screens[s].req, v, amount)
<1> DEFINE scr == [screens[s] EXCEPT !.to = v, !.amount = amount, !.step = "asked",
                                     !.edited = over]
<1>4. over \in BOOLEAN
  BY DEF TypedOver
<1>5. screens \in Seq(Screen) /\ screens[s] \in Screen
  BY ScreenType DEF PayInv
<1>6. /\ scr \in Screen
      /\ scr.step = "asked" /\ scr.user = screens[s].user /\ scr.req = screens[s].req
      /\ scr.to = v /\ scr.amount = amount /\ scr.edited = over
  BY <1>3, <1>4, <1>5 DEF Screen, Steps
<1>7. screens' = [screens EXCEPT ![s] = scr]
  BY <1>2
<1>8. scr.edited = TypedOver(scr.req, scr.to, scr.amount)
  BY <1>6
<1> HIDE DEF scr, over
<1>9. /\ screens' \in Seq(Screen) /\ DOMAIN screens' = DOMAIN screens
      /\ \A i \in DOMAIN screens : screens'[i] = IF i = s THEN scr ELSE screens[i]
  BY <1>5, <1>6, <1>7, OneScreen
<1>10. AmountsTyped'
  BY <1>6, <1>9 DEF AmountsTyped, PayInv
<1>11. Awaits'
  BY <1>1, <1>9 DEF Awaits, PayInv, ledger, LedgerTypes, Payment
<1>12. PayInv'
  BY <1>1, <1>9, <1>10, <1>11, PayOfScreens
<1>13. QED
  BY <1>1, <1>6, <1>8, <1>9, <1>12 DEF TypedOver, requests

\* A screen that waits for nothing goes on to a step in which it does not, either.
LEMMA GotoPay ==
    ASSUME PayInv, NEW s \in DOMAIN screens, screens[s].step # "sending",
           NEW step \in Steps, screens[s].step = "form" => step = "form", Goto(s, step),
           UNCHANGED ledger, RequestTypes', UNCHANGED table
    PROVE  PayInv'
<1>1. screens \in Seq(Screen)
  BY DEF PayInv
<1>2. /\ screens' \in Seq(Screen) /\ DOMAIN screens' = DOMAIN screens
      /\ \A i \in DOMAIN screens : i # s => screens'[i] = screens[i]
      /\ screens'[s].step = step /\ screens'[s].amount = screens[s].amount
  BY <1>1, GotoStep
<1>3. AmountsTyped'
  BY <1>2 DEF AmountsTyped, PayInv
<1>4. Awaits'
  BY <1>2 DEF Awaits, PayInv, ledger, LedgerTypes, Payment
<1>5. Screen' = Screen /\ Payment' = Payment
  BY <1>2 DEF Screen, Payment
<1>6. QED
  BY <1>2, <1>3, <1>4, <1>5 DEF PayInv, LedgerTypes, ledger

\* sendMoney hands a transaction over, the only one its screen waits for.
LEMMA SubmitPay ==
    ASSUME PayInv, NEW s \in DOMAIN screens, SendMoney(s)
    PROVE  PayInv'
<1> DEFINE t == [screen |-> s, from |-> screens[s].user, to |-> screens[s].to,
                 amount |-> screens[s].amount, seq |-> seq[screens[s].user], awaited |-> TRUE]
<1>1. /\ screens[s].step = "asked" /\ Goto(s, "sending") /\ txs' = txs \cup {t}
      /\ UNCHANGED <<requests, seq, balance, payments>>
  BY DEF SendMoney, Submit, At
<1>2. screens \in Seq(Screen) /\ screens[s] \in Screen
  BY ScreenType DEF PayInv
<1>3. t \in Payment
  <2>1. screens[s].amount \in Amounts
    BY <1>1 DEF PayInv, AmountsTyped
  <2>2. screens[s].user \in Users /\ screens[s].to \in Users
    BY <1>2 DEF Screen
  <2>3. seq[screens[s].user] \in Nat
    BY <2>2 DEF PayInv, LedgerTypes
  <2>4. QED
    BY <2>1, <2>2, <2>3 DEF Payment
<1>4. /\ t.screen = s /\ t.from = screens[s].user /\ t.to = screens[s].to
      /\ t.amount = screens[s].amount
  OBVIOUS
<1> HIDE DEF t
<1>5. /\ screens' \in Seq(Screen) /\ DOMAIN screens' = DOMAIN screens
      /\ \A i \in DOMAIN screens : i # s => screens'[i] = screens[i]
      /\ screens'[s].step = "sending" /\ screens'[s].amount = screens[s].amount
      /\ screens'[s].user = screens[s].user /\ screens'[s].to = screens[s].to
  BY <1>1, <1>2, GotoStep DEF Steps
<1>6. AmountsTyped'
  BY <1>1, <1>5 DEF AmountsTyped, PayInv
<1>7. \A tx \in txs : tx.screen \in DOMAIN screens /\ (tx.awaited => tx.screen # s)
  BY <1>1 DEF PayInv, Awaits, LedgerTypes, Payment
<1>8. Awaits'
  <2>1. ASSUME NEW tx \in txs', tx.awaited
        PROVE  /\ screens'[tx.screen].step = "sending"
               /\ tx.from = screens'[tx.screen].user /\ tx.to = screens'[tx.screen].to
               /\ tx.amount = screens'[tx.screen].amount
    <3>1. CASE tx \in txs
      <4>1. tx.screen \in DOMAIN screens /\ screens'[tx.screen] = screens[tx.screen]
        BY <1>5, <1>7, <2>1, <3>1
      <4>2. QED
        BY <2>1, <3>1, <4>1 DEF PayInv, Awaits
    <3>2. CASE tx = t
      BY <1>4, <1>5, <3>2
    <3>3. QED
      BY <1>1, <3>1, <3>2
  <2>2. ASSUME NEW tx \in txs', NEW other \in txs', tx.awaited, other.awaited,
               tx.screen = other.screen
        PROVE  tx = other
    BY <1>1, <1>4, <1>7, <2>2 DEF PayInv, Awaits
  <2>3. QED
    BY <2>1, <2>2 DEF Awaits
<1>9. Screen' = Screen /\ Payment' = Payment
  BY <1>1, <1>5 DEF Screen, Payment, requests
<1>10. LedgerTypes'
  BY <1>1, <1>3, <1>9 DEF LedgerTypes, PayInv
<1>11. RequestTypes'
  BY <1>1 DEF RequestTypes, PayInv, requests, Request
<1>12. QED
  BY <1>5, <1>6, <1>8, <1>9, <1>10, <1>11 DEF PayInv

\* The answer to a transaction goes to the screen that waits for it, if any.
LEMMA HearStep ==
    ASSUME PayInv, NEW tx \in txs, NEW outcome \in {"landed", "failed"}, Hear(tx, outcome),
           txs' = txs \ {tx}
    PROVE  /\ screens' \in Seq(Screen) /\ DOMAIN screens' = DOMAIN screens
           /\ AmountsTyped' /\ Awaits'
           /\ ~tx.awaited => screens' = screens
           /\ tx.awaited =>
                 /\ tx.screen \in DOMAIN screens
                 /\ screens[tx.screen].step = "sending"
                 /\ \A i \in DOMAIN screens : i # tx.screen => screens'[i] = screens[i]
                 /\ screens'[tx.screen] = [screens[tx.screen] EXCEPT !.step = outcome]
                 /\ screens'[tx.screen].step = outcome
<1>1. /\ screens \in Seq(Screen) /\ AmountsTyped /\ Awaits
      /\ \A w \in txs : w.screen \in DOMAIN screens
  BY DEF PayInv, LedgerTypes, Payment
<1>2. CASE ~tx.awaited
  <2>1. screens' = screens
    BY <1>2 DEF Hear
  <2>2. AmountsTyped' /\ Awaits'
    BY <1>1, <2>1 DEF AmountsTyped, Awaits
  <2>3. QED
    BY <1>1, <1>2, <2>1, <2>2
<1>3. CASE tx.awaited
  <2>1. Goto(tx.screen, outcome) /\ tx.screen \in DOMAIN screens
    BY <1>1, <1>3 DEF Hear, Goto
  <2>2. /\ screens' \in Seq(Screen) /\ DOMAIN screens' = DOMAIN screens
        /\ \A i \in DOMAIN screens : i # tx.screen => screens'[i] = screens[i]
        /\ screens'[tx.screen] = [screens[tx.screen] EXCEPT !.step = outcome]
        /\ screens'[tx.screen].step = outcome
        /\ screens'[tx.screen].amount = screens[tx.screen].amount
    BY <1>1, <2>1, GotoStep DEF Steps
  <2>3. screens[tx.screen].step = "sending"
    BY <1>1, <1>3 DEF Awaits
  <2>4. AmountsTyped'
    BY <1>1, <2>2, <2>3 DEF AmountsTyped
  <2>5. \A w \in txs' : w.awaited => w \in txs /\ w.screen # tx.screen
    BY <1>1, <1>3 DEF Awaits
  <2>6. Awaits'
    BY <1>1, <2>2, <2>5 DEF Awaits
  <2>7. QED
    BY <1>3, <2>1, <2>2, <2>3, <2>4, <2>6
<1>4. QED
  BY <1>2, <1>3

\* A payment that lands moves what its sender has.
LEMMA LandPay ==
    ASSUME PayInv, NEW tx \in txs, Land(tx)
    PROVE  PayInv'
<1>1. /\ Valid(tx) /\ txs' = txs \ {tx} /\ Hear(tx, "landed")
      /\ seq' = [seq EXCEPT ![tx.from] = @ + 1]
      /\ balance' = [balance EXCEPT ![tx.from] = @ - tx.amount, ![tx.to] = @ + tx.amount]
      /\ payments' = payments \cup {tx} /\ UNCHANGED requests
  BY DEF Land
<1>2. screens' \in Seq(Screen) /\ DOMAIN screens' = DOMAIN screens /\ AmountsTyped' /\ Awaits'
  BY <1>1, HearStep
<1>3. tx \in Payment /\ seq \in [Users -> Nat] /\ balance \in [Users -> Nat]
  BY DEF PayInv, LedgerTypes
<1>4. /\ tx.from \in Users /\ tx.to \in Users /\ tx.amount \in Nat
      /\ tx.amount <= balance[tx.from]
  BY <1>1, <1>3, AmountsAssumption DEF Payment, Valid
<1>5. seq' \in [Users -> Nat]
  BY <1>1, <1>3, <1>4
<1>6. balance' \in [Users -> Nat]
  <2>1. tx.from # tx.to => balance[tx.to] + tx.amount \in Nat
    BY <1>3, <1>4
  <2>2. balance[tx.from] - tx.amount \in Nat /\ balance[tx.from] - tx.amount + tx.amount \in Nat
    BY <1>3, <1>4
  <2>3. QED
    BY <1>1, <1>3, <1>4, <2>1, <2>2
<1>7. Screen' = Screen /\ Payment' = Payment
  BY <1>1, <1>2 DEF Screen, Payment, requests
<1>8. LedgerTypes'
  BY <1>1, <1>3, <1>5, <1>6, <1>7 DEF LedgerTypes, PayInv
<1>9. RequestTypes'
  BY <1>1 DEF RequestTypes, PayInv, requests, Request
<1>10. QED
  BY <1>2, <1>7, <1>8, <1>9 DEF PayInv

\* A transaction that is refused leaves the ledger as it was.
LEMMA DropPay ==
    ASSUME PayInv, NEW tx \in txs, Drop(tx)
    PROVE  PayInv'
<1>1. /\ txs' = txs \ {tx} /\ Hear(tx, "failed")
      /\ UNCHANGED <<requests, seq, balance, payments>>
  BY DEF Drop
<1>2. screens' \in Seq(Screen) /\ DOMAIN screens' = DOMAIN screens /\ AmountsTyped' /\ Awaits'
  BY <1>1, HearStep
<1>3. Screen' = Screen /\ Payment' = Payment
  BY <1>1, <1>2 DEF Screen, Payment, requests
<1>4. LedgerTypes'
  BY <1>1, <1>3 DEF LedgerTypes, PayInv
<1>5. RequestTypes'
  BY <1>1 DEF RequestTypes, PayInv, requests, Request
<1>6. QED
  BY <1>2, <1>3, <1>4, <1>5 DEF PayInv

\* What is left of the transactions when a screen gives up waiting.
LEMMA LostTxs ==
    ASSUME PayInv, NEW s \in DOMAIN screens, Lost(s)
    PROVE  /\ txs' \subseteq Payment
           /\ \A tx \in txs' : tx.awaited => tx \in txs /\ tx.screen # s
<1>1. txs' = {IF tx.screen = s THEN [tx EXCEPT !.awaited = FALSE] ELSE tx : tx \in txs}
  BY DEF Lost
<1>2. ASSUME NEW w \in txs'
      PROVE  w \in Payment /\ (w.awaited => w \in txs /\ w.screen # s)
  <2>1. PICK tx \in txs : w = IF tx.screen = s THEN [tx EXCEPT !.awaited = FALSE] ELSE tx
    BY <1>1
  <2>2. tx \in Payment
    BY DEF PayInv, LedgerTypes
  <2>3. CASE tx.screen = s
    <3>1. w \in Payment /\ w.awaited = FALSE
      BY <2>1, <2>2, <2>3 DEF Payment
    <3>2. QED
      BY <3>1
  <2>4. CASE tx.screen # s
    BY <2>1, <2>2, <2>4
  <2>5. QED
    BY <2>3, <2>4
<1>3. QED
  BY <1>2

\* A call that gives up leaves its transaction to nobody.
LEMMA LostPay ==
    ASSUME PayInv, NEW s \in DOMAIN screens, Lost(s)
    PROVE  PayInv'
<1>1. /\ screens[s].step \in {"sending", "landed"} /\ Goto(s, "form")
      /\ UNCHANGED <<requests, seq, balance, payments>>
  BY DEF Lost, At
<1>2. screens \in Seq(Screen) /\ AmountsTyped /\ Awaits
  BY DEF PayInv
<1>3. /\ screens' \in Seq(Screen) /\ DOMAIN screens' = DOMAIN screens
      /\ \A i \in DOMAIN screens : i # s => screens'[i] = screens[i]
      /\ screens'[s].step = "form"
  BY <1>1, <1>2, GotoStep DEF Steps
<1>4. AmountsTyped'
  BY <1>2, <1>3 DEF AmountsTyped
<1>5. /\ txs' \subseteq Payment
      /\ \A tx \in txs' : tx.awaited => tx \in txs /\ tx.screen # s
  BY LostTxs
<1>6. \A tx \in txs' : tx.screen \in DOMAIN screens
  BY <1>5 DEF Payment
<1>7. Awaits'
  BY <1>2, <1>3, <1>5, <1>6 DEF Awaits
<1>8. Screen' = Screen /\ Payment' = Payment
  BY <1>1, <1>3 DEF Screen, Payment, requests
<1>9. LedgerTypes'
  BY <1>1, <1>5, <1>8 DEF LedgerTypes, PayInv
<1>10. RequestTypes'
  BY <1>1 DEF RequestTypes, PayInv, requests, Request
<1>11. QED
  BY <1>3, <1>4, <1>7, <1>8, <1>9, <1>10 DEF PayInv

\* A request is marked when its payment is known to be on the ledger.
LEMMA SentPay ==
    ASSUME PayInv, NEW s \in DOMAIN screens, Sent(s)
    PROVE  PayInv'
<1>1. /\ screens[s].step = "landed" /\ Goto(s, "done") /\ patches' = Marked(s)
      /\ UNCHANGED <<table, list, ledger>>
  BY DEF Sent, At
<1>2. screens[s] \in Screen
  BY ScreenType DEF PayInv
<1>3. patches' \subseteq [req : DOMAIN table, status : Statuses]
  <2>1. patches \subseteq [req : DOMAIN table, status : Statuses]
    BY DEF PayInv, RequestTypes
  <2>2. screens[s].req # NoRequest => screens[s].req \in DOMAIN table
    BY <1>2 DEF Screen
  <2>3. QED
    BY <1>1, <2>1, <2>2 DEF Marked, Statuses
<1>4. RequestTypes'
  BY <1>1, <1>3 DEF RequestTypes, PayInv, Request
<1>5. QED
  BY <1>1, <1>4, GotoPay DEF Steps

\* Refuse and NotSent go back to the form.
LEMMA BackPay ==
    ASSUME PayInv, NEW s \in DOMAIN screens, Refuse(s) \/ NotSent(s)
    PROVE  PayInv'
<1>1. /\ screens[s].step \in {"asked", "failed"} /\ Goto(s, "form")
      /\ UNCHANGED <<requests, ledger>>
  BY DEF Refuse, NotSent, At
<1>2. RequestTypes' /\ UNCHANGED table
  BY <1>1 DEF RequestTypes, PayInv, Request, requests
<1>3. QED
  BY <1>1, <1>2, GotoPay DEF Steps

\* Every step keeps the invariant of requests, screens and the ledger.
LEMMA StepPay == PayInv /\ [Next]_vars => PayInv'
<1> SUFFICES ASSUME PayInv, [Next]_vars
             PROVE  PayInv'
  OBVIOUS
<1>1. ASSUME NEW u \in Users, NEW to, NEW amount \in Amounts, OnAsk(u, to, amount)
      PROVE  PayInv'
  <2>1. PICK v \in Users : CreateRequest(u, v, amount)
    BY <1>1 DEF OnAsk, Destinations
  <2>2. QED
    BY <2>1, CreatePay
<1>2. ASSUME NEW u \in Users, LoadRequests(u)
      PROVE  PayInv'
  BY <1>2, LoadPay
<1>3. ASSUME NEW u \in Users, OpenSend(u)
      PROVE  PayInv'
  BY <1>3, OpenPay DEF OpenSend
<1>4. ASSUME NEW u \in Users,
             \/ StoreName(u) \/ RegisterUser(u) \/ Boot(u)
             \/ UpdateProfile(u) \/ SyncProfile(u)
      PROVE  PayInv'
  BY <1>4, PayApart DEF StoreName, RegisterUser, Boot, UpdateProfile, SyncProfile
<1>5. ASSUME NEW u \in Users, NEW n, ChangeUsername(u, n)
      PROVE  PayInv'
  BY <1>5, PayApart DEF ChangeUsername, Naming
<1>6. ASSUME NEW u \in Users, NEW r \in DOMAIN table, OnDecline(u, r)
      PROVE  PayInv'
  BY <1>6, DeclinePay
<1>7. ASSUME NEW u \in Users, NEW r \in DOMAIN table, PayCard(u, r) \/ OnPressRow(u, r)
      PROVE  PayInv'
  BY <1>7, OpenPay DEF PayCard, OnPressRow
<1>8. ASSUME NEW p \in patches, Patch(p)
      PROVE  PayInv'
  BY <1>8, PatchPay
<1>9. ASSUME NEW s \in DOMAIN screens, NEW to, NEW amount \in Amounts, OnSend(s, to, amount)
      PROVE  PayInv'
  BY <1>9, SendPay
<1>10. ASSUME NEW s \in DOMAIN screens,
              SendMoney(s) \/ Refuse(s) \/ Sent(s) \/ NotSent(s) \/ Lost(s)
       PROVE  PayInv'
  BY <1>10, SubmitPay, BackPay, SentPay, LostPay
<1>11. ASSUME NEW tx \in txs, Land(tx) \/ Drop(tx)
       PROVE  PayInv'
  BY <1>11, LandPay, DropPay
<1>12. CASE UNCHANGED vars
  BY <1>12, PayApart DEF vars
<1>13. QED
  BY <1>1, <1>2, <1>3, <1>4, <1>5, <1>6, <1>7, <1>8, <1>9, <1>10, <1>11, <1>12 DEF Next

\* Every step keeps the types of the history and of the number of faults.
LEMMA StepFlags == FlagTypes /\ [Next]_vars => FlagTypes'
<1> SUFFICES ASSUME FlagTypes, [Next]_vars
             PROVE  FlagTypes'
  OBVIOUS
<1>1. ASSUME UNCHANGED <<slip, faults>>
      PROVE  FlagTypes'
  BY <1>1 DEF FlagTypes
<1>2. Fault => faults' \in 0 .. MaxFaults
  BY AmountsAssumption DEF FlagTypes, Fault
<1>3. ASSUME NEW u \in Users, RegisterUser(u)
      PROVE  FlagTypes'
  BY <1>2, <1>3 DEF RegisterUser, FlagTypes
<1>4. ASSUME NEW u \in Users, NEW n, ChangeUsername(u, n)
      PROVE  FlagTypes'
  <2>1. UNCHANGED slip /\ (UNCHANGED faults \/ Fault)
    BY <1>4 DEF ChangeUsername, Naming
  <2>2. QED
    BY <1>2, <2>1 DEF FlagTypes
<1>5. ASSUME NEW p, Patch(p)
      PROVE  FlagTypes'
  BY <1>2, <1>5 DEF Patch, FlagTypes, directory
<1>6. ASSUME NEW s, Lost(s)
      PROVE  FlagTypes'
  BY <1>2, <1>6 DEF Lost, FlagTypes, directory
<1>7. ASSUME NEW u \in Users, NEW to, NEW amount, OnAsk(u, to, amount)
      PROVE  FlagTypes'
  BY <1>1, <1>7 DEF OnAsk, CreateRequest, directory
<1>8. ASSUME NEW u \in Users,
             \/ LoadRequests(u) \/ OpenSend(u) \/ StoreName(u) \/ Boot(u) \/ UpdateProfile(u)
      PROVE  FlagTypes'
  BY <1>1, <1>8 DEF LoadRequests, OpenSend, Open, StoreName, Boot, UpdateProfile, directory
<1>9. ASSUME NEW u \in Users, NEW r, OnDecline(u, r) \/ PayCard(u, r) \/ OnPressRow(u, r)
      PROVE  FlagTypes'
  BY <1>1, <1>9 DEF OnDecline, PayCard, OnPressRow, Open, directory
<1>10. ASSUME NEW s, NEW to, NEW amount, OnSend(s, to, amount)
       PROVE  FlagTypes'
  BY <1>1, <1>10 DEF OnSend, OnSendAt, directory
<1>11. ASSUME NEW s, SendMoney(s) \/ Refuse(s) \/ Sent(s) \/ NotSent(s)
       PROVE  FlagTypes'
  BY <1>1, <1>11 DEF SendMoney, Refuse, Sent, NotSent, directory
<1>12. ASSUME NEW tx, Land(tx) \/ Drop(tx)
       PROVE  FlagTypes'
  BY <1>1, <1>12 DEF Land, Drop, directory
<1>13. ASSUME NEW u \in Users, SyncProfile(u)
       PROVE  FlagTypes'
  BY <1>1, <1>13 DEF SyncProfile
<1>14. CASE UNCHANGED vars
  BY <1>1, <1>14 DEF vars, directory
<1>15. QED
  BY <1>3, <1>4, <1>5, <1>6, <1>7, <1>8, <1>9, <1>10, <1>11, <1>12, <1>13, <1>14 DEF Next

\* Requests, screens, transactions and names keep their types; in particular no
\* balance goes below zero and no screen sends without an amount.
THEOREM TypeCorrect == Spec => []TypeOK
<1>1. Init => FlagTypes
  <2>1. Init => slip = FALSE /\ faults = 0
    BY DEF Init
  <2>2. 0 \in 0 .. MaxFaults
    BY AmountsAssumption
  <2>3. QED
    BY <2>1, <2>2, Zenon DEF FlagTypes
<1>2. PayInv /\ NamesInv /\ FlagTypes => TypeOK
  <2> SUFFICES ASSUME PayInv, NamesInv, FlagTypes
               PROVE  TypeOK
    OBVIOUS
  <2>1. /\ table \in Seq(Request) /\ list \in [Users -> SUBSET (DOMAIN table)]
        /\ patches \subseteq [req : DOMAIN table, status : Statuses]
        /\ screens \in Seq(Screen) /\ txs \cup payments \subseteq Payment
        /\ seq \in [Users -> Nat] /\ balance \in [Users -> Nat]
    BY DEF PayInv, RequestTypes, LedgerTypes
  <2>2. /\ row \in [Users -> Names] /\ name \in [Users -> Names]
        /\ naming \in [Users -> Names \cup {NoName}] /\ stored \in [Users -> BOOLEAN]
        /\ syncing \in [Users -> Names \cup {NoName}] /\ astray \subseteq Users
    BY DEF NamesInv, NamesType
  <2>3. QED
    BY <2>1, <2>2 DEF TypeOK, FlagTypes, Request, Screen, Payment
<1>3. QED
  BY <1>1, <1>2, InitPay, InitNames, StepPay, StepNames, StepFlags, PTL DEF Spec

----------------------------------------------------------------------------
(* A request that says it is paid has been *)

\* The screen that paid a request, and its payment.
PaidBy(r, s) ==
    /\ screens[s].step = "done" /\ screens[s].req = r
    /\ \E tx \in payments :
          /\ tx.screen = s /\ tx.from = table[r].to
          /\ screens[s].edited \/ (tx.to = table[r].from /\ tx.amount = table[r].amount)
PaidFor(r) == \E s \in DOMAIN screens : PaidBy(r, s)

\* A list shows what its user was asked for, and a screen is opened by whoever
\* was asked; past the form, it sends what was asked for unless it says edited.
ListsFit == \A u \in Users : \A r \in list[u] : table[r].to = u
UsersFit == \A s \in DOMAIN screens :
    screens[s].req # NoRequest => table[screens[s].req].to = screens[s].user
FormsFit == \A s \in DOMAIN screens :
    screens[s].step # "form" /\ screens[s].req # NoRequest =>
        \/ screens[s].edited
        \/ /\ screens[s].to = table[screens[s].req].from
           /\ screens[s].amount = table[screens[s].req].amount

\* A screen that was told its payment has landed has it on the ledger.
HasLanded(s) == \E tx \in payments :
    /\ tx.screen = s /\ tx.from = screens[s].user
    /\ tx.to = screens[s].to /\ tx.amount = screens[s].amount
Landed == \A s \in DOMAIN screens : screens[s].step \in {"landed", "done"} => HasLanded(s)

MarksPaid == \A p \in patches : p.status = "paid" => PaidFor(p.req)
SaysPaid == \A r \in DOMAIN table : table[r].status = "paid" => PaidFor(r)

PaidInv == ListsFit /\ UsersFit /\ FormsFit /\ Landed /\ MarksPaid /\ SaysPaid

\* At the start nothing says it is paid.
LEMMA InitPaid == Init => PaidInv
<1> SUFFICES ASSUME Init
             PROVE  PaidInv
  OBVIOUS
<1>1. /\ DOMAIN table = {} /\ DOMAIN screens = {} /\ patches = {}
      /\ \A u \in Users : list[u] = {}
  BY DEF Init
<1>2. QED
  BY <1>1 DEF PaidInv, ListsFit, UsersFit, FormsFit, Landed, MarksPaid, SaysPaid

\* What was asked stays asked, for those requests that there were.
AskedStays ==
    /\ DOMAIN table \subseteq DOMAIN table'
    /\ \A r \in DOMAIN table :
          /\ table'[r].from = table[r].from /\ table'[r].to = table[r].to
          /\ table'[r].amount = table[r].amount

\* A payment that was made stays made.
LEMMA PaidStays ==
    ASSUME NEW r \in DOMAIN table, PaidFor(r), AskedStays,
           payments \subseteq payments',
           \A s \in DOMAIN screens : screens[s].step = "done" =>
              /\ s \in DOMAIN screens' /\ screens'[s].step = "done"
              /\ screens'[s].req = screens[s].req /\ screens'[s].edited = screens[s].edited
    PROVE  PaidFor(r)'
<1>1. PICK s \in DOMAIN screens : PaidBy(r, s)
  BY DEF PaidFor
<1>2. /\ s \in DOMAIN screens' /\ screens'[s].step = "done"
      /\ screens'[s].req = r /\ screens'[s].edited = screens[s].edited
  BY <1>1 DEF PaidBy
<1>3. PICK tx \in payments :
         /\ tx.screen = s /\ tx.from = table[r].to
         /\ screens[s].edited \/ (tx.to = table[r].from /\ tx.amount = table[r].amount)
  BY <1>1 DEF PaidBy
<1>4. /\ tx \in payments' /\ tx.from = table'[r].to
      /\ screens'[s].edited \/ (tx.to = table'[r].from /\ tx.amount = table'[r].amount)
  BY <1>2, <1>3 DEF AskedStays
<1>5. PaidBy(r, s)'
  BY <1>2, <1>3, <1>4 DEF PaidBy
<1>6. QED
  BY <1>2, <1>5 DEF PaidFor

\* Steps of requests, with the screens and the ledger as they were.
LEMMA PaidOfRequests ==
    ASSUME PayInv, PaidInv, AskedStays, UNCHANGED <<screens, ledger>>, ListsFit',
           \A p \in patches' : p \in patches \/ p.status # "paid",
           \A r \in DOMAIN table' : table'[r].status = "paid" =>
              r \in DOMAIN table /\ (table[r].status = "paid" \/ [req |-> r, status |-> "paid"] \in patches)
    PROVE  PaidInv'
<1>1. \A s \in DOMAIN screens :
         screens[s].req # NoRequest => screens[s].req \in DOMAIN table
  BY ScreenType DEF PayInv, Screen
<1>2. UsersFit' /\ FormsFit'
  BY <1>1 DEF PaidInv, UsersFit, FormsFit, AskedStays
<1>3. Landed'
  BY DEF PaidInv, Landed, HasLanded, ledger
<1>4. ASSUME NEW r \in DOMAIN table, PaidFor(r)
      PROVE  PaidFor(r)'
  BY <1>4, PaidStays DEF ledger
<1>5. MarksPaid'
  <2>1. \A p \in patches : p.req \in DOMAIN table
    BY DEF PayInv, RequestTypes
  <2>2. QED
    BY <1>4, <2>1 DEF PaidInv, MarksPaid
<1>6. SaysPaid'
  <2>1. ASSUME NEW r \in DOMAIN table', table'[r].status = "paid"
        PROVE  PaidFor(r)'
    <3>1. r \in DOMAIN table /\ (table[r].status = "paid" \/ [req |-> r, status |-> "paid"] \in patches)
      BY <2>1
    <3>2. PaidFor(r)
      BY <3>1 DEF PaidInv, SaysPaid, MarksPaid
    <3>3. QED
      BY <1>4, <3>1, <3>2
  <2>2. QED
    BY <2>1 DEF SaysPaid
<1>7. QED
  BY <1>2, <1>3, <1>5, <1>6 DEF PaidInv

\* What fills a screen stays, and nobody gets past the form without being asked.
FormKept(s) ==
    /\ screens'[s].user = screens[s].user /\ screens'[s].req = screens[s].req
    /\ screens'[s].to = screens[s].to /\ screens'[s].amount = screens[s].amount
    /\ screens'[s].edited = screens[s].edited
    /\ screens'[s].step # "form" => screens[s].step # "form"
    /\ screens[s].step = "done" => screens'[s].step = "done"

\* Steps of screens whose forms stay as they are filled in.
LEMMA PaidOfScreens ==
    ASSUME PayInv, PaidInv, UNCHANGED <<table, list>>, DOMAIN screens' = DOMAIN screens,
           \A s \in DOMAIN screens : FormKept(s), payments \subseteq payments', Landed',
           \A p \in patches' : p \in patches \/ p.status # "paid" \/ PaidFor(p.req)'
    PROVE  PaidInv'
<1>1. ListsFit' /\ UsersFit' /\ FormsFit'
  BY DEF PaidInv, ListsFit, UsersFit, FormsFit, FormKept
<1>2. AskedStays
  BY DEF AskedStays
<1>3. ASSUME NEW r \in DOMAIN table, PaidFor(r)
      PROVE  PaidFor(r)'
  BY <1>2, <1>3, PaidStays DEF FormKept
<1>4. MarksPaid'
  <2>1. \A p \in patches : p.req \in DOMAIN table
    BY DEF PayInv, RequestTypes
  <2>2. QED
    BY <1>3, <2>1 DEF PaidInv, MarksPaid
<1>5. SaysPaid'
  BY <1>3 DEF PaidInv, SaysPaid
<1>6. QED
  BY <1>1, <1>4, <1>5 DEF PaidInv

\* Landed, when no screen gets to know of a payment and none leaves the ledger.
LEMMA LandedStays ==
    ASSUME PayInv, PaidInv, DOMAIN screens' = DOMAIN screens, payments \subseteq payments',
           \A s \in DOMAIN screens :
              /\ FormKept(s)
              /\ screens'[s].step \in {"landed", "done"} => screens[s].step \in {"landed", "done"}
    PROVE  Landed'
<1>1. ASSUME NEW s \in DOMAIN screens', screens'[s].step \in {"landed", "done"}
      PROVE  HasLanded(s)'
  <2>1. s \in DOMAIN screens /\ HasLanded(s)
    BY <1>1 DEF PaidInv, Landed
  <2>2. QED
    BY <2>1 DEF HasLanded, FormKept
<1>2. QED
  BY <1>1 DEF Landed

\* A new request does not say it is paid.
LEMMA CreatePaid ==
    ASSUME PayInv, PaidInv, NEW u \in Users, NEW v \in Users, NEW amount \in Amounts,
           CreateRequest(u, v, amount)
    PROVE  PaidInv'
<1>1. /\ DOMAIN table \subseteq DOMAIN table'
      /\ \A r \in DOMAIN table : table'[r] = table[r]
      /\ \A r \in DOMAIN table' : r \in DOMAIN table \/ table'[r].status = "pending"
  BY CreatePay
<1>2. UNCHANGED <<list, patches, screens, ledger>>
  BY DEF CreateRequest
<1>3. AskedStays
  BY <1>1 DEF AskedStays
<1>4. ListsFit'
  <2>1. \A w \in Users : list[w] \subseteq DOMAIN table
    BY DEF PayInv, RequestTypes
  <2>2. QED
    BY <1>1, <1>2, <2>1 DEF PaidInv, ListsFit
<1>5. QED
  BY <1>1, <1>2, <1>3, <1>4, PaidOfRequests

\* A list is loaded with what its user was asked for.
LEMMA LoadPaid ==
    ASSUME PayInv, PaidInv, NEW u \in Users, LoadRequests(u)
    PROVE  PaidInv'
<1>1. /\ list' = [list EXCEPT ![u] =
             {r \in DOMAIN table : table[r].to = u /\ table[r].status = "pending"}]
      /\ UNCHANGED <<table, patches, screens, ledger>>
  BY DEF LoadRequests
<1>2. AskedStays
  BY <1>1 DEF AskedStays
<1>3. ListsFit'
  BY <1>1 DEF PaidInv, ListsFit, PayInv, RequestTypes
<1>4. QED
  BY <1>1, <1>2, <1>3, PaidOfRequests

\* onDecline marks nothing as paid.
LEMMA DeclinePaid ==
    ASSUME PayInv, PaidInv, NEW u \in Users, NEW r \in DOMAIN table, OnDecline(u, r)
    PROVE  PaidInv'
<1>1. /\ list' = [list EXCEPT ![u] = list[u] \ {r}]
      /\ patches' = patches \cup {[req |-> r, status |-> "declined"]}
      /\ UNCHANGED <<table, screens, ledger>>
  BY DEF OnDecline
<1>2. AskedStays
  BY <1>1 DEF AskedStays
<1>3. ListsFit'
  BY <1>1 DEF PaidInv, ListsFit, PayInv, RequestTypes
<1>4. QED
  BY <1>1, <1>2, <1>3, PaidOfRequests

\* A status that says paid comes from a mark that does.
LEMMA PatchPaid ==
    ASSUME PayInv, PaidInv, NEW p \in patches, Patch(p)
    PROVE  PaidInv'
<1>1. /\ DOMAIN table' = DOMAIN table
      /\ \A r \in DOMAIN table :
            /\ table'[r].from = table[r].from /\ table'[r].to = table[r].to
            /\ table'[r].amount = table[r].amount
            /\ table'[r].status # table[r].status => r = p.req /\ table'[r].status = p.status
  BY PatchPay
<1>2. patches' \subseteq patches /\ UNCHANGED <<list, screens, ledger>>
  BY DEF Patch
<1>3. AskedStays
  BY <1>1 DEF AskedStays
<1>4. ListsFit'
  <2>1. \A w \in Users : list[w] \subseteq DOMAIN table
    BY DEF PayInv, RequestTypes
  <2>2. QED
    BY <1>1, <1>2, <2>1 DEF PaidInv, ListsFit
<1>5. p = [req |-> p.req, status |-> p.status]
  BY DEF PayInv, RequestTypes
<1>6. QED
  BY <1>1, <1>2, <1>3, <1>4, <1>5, PaidOfRequests

\* A new screen knows of no payment, and is opened by the one who was asked.
LEMMA OpenPaid ==
    ASSUME PayInv, PaidInv, NEW u \in Users, NEW r \in {NoRequest} \cup DOMAIN table, Open(u, r),
           r # NoRequest => table[r].to = u
    PROVE  PaidInv'
<1>1. /\ DOMAIN screens \subseteq DOMAIN screens'
      /\ \A s \in DOMAIN screens : screens'[s] = screens[s]
      /\ \A s \in DOMAIN screens' \ DOMAIN screens :
            screens'[s].step = "form" /\ screens'[s].user = u /\ screens'[s].req = r
  BY OpenPay
<1>2. UNCHANGED <<table, list, patches, payments>>
  BY DEF Open, requests, ledger
<1>3. ListsFit' /\ UsersFit' /\ FormsFit'
  BY <1>1, <1>2 DEF PaidInv, ListsFit, UsersFit, FormsFit
<1>4. Landed'
  <2>1. ASSUME NEW s \in DOMAIN screens', screens'[s].step \in {"landed", "done"}
        PROVE  HasLanded(s)'
    <3>1. s \in DOMAIN screens /\ HasLanded(s) /\ screens'[s] = screens[s]
      BY <1>1, <2>1 DEF PaidInv, Landed
    <3>2. QED
      BY <1>2, <3>1 DEF HasLanded
  <2>2. QED
    BY <2>1 DEF Landed
<1>5. AskedStays
  BY <1>2 DEF AskedStays
<1>6. ASSUME NEW q \in DOMAIN table, PaidFor(q)
      PROVE  PaidFor(q)'
  BY <1>1, <1>2, <1>5, <1>6, PaidStays
<1>7. MarksPaid' /\ SaysPaid'
  <2>1. \A p \in patches : p.req \in DOMAIN table
    BY DEF PayInv, RequestTypes
  <2>2. QED
    BY <1>2, <1>6, <2>1 DEF PaidInv, MarksPaid, SaysPaid
<1>8. QED
  BY <1>3, <1>4, <1>7 DEF PaidInv

\* A filled form is what was asked for, or says that it is not.
LEMMA SendPaid ==
    ASSUME PayInv, PaidInv, NEW s \in DOMAIN screens, NEW to, NEW amount \in Amounts,
           OnSend(s, to, amount)
    PROVE  PaidInv'
<1>1. /\ DOMAIN screens' = DOMAIN screens
      /\ screens[s].step = "form" /\ screens'[s].step = "asked"
      /\ \A i \in DOMAIN screens : i # s => screens'[i] = screens[i]
      /\ screens'[s].user = screens[s].user /\ screens'[s].req = screens[s].req
      /\ screens'[s].edited =
            TypedOver(screens[s].req, screens'[s].to, screens'[s].amount)
  BY SendPay
<1>2. UNCHANGED <<table, list, patches, payments>>
  BY DEF OnSend, OnSendAt, requests, ledger
<1>3. ListsFit' /\ UsersFit'
  BY <1>1, <1>2 DEF PaidInv, ListsFit, UsersFit
<1>4. FormsFit'
  <2>1. ASSUME screens[s].req # NoRequest, ~screens'[s].edited
        PROVE  /\ screens'[s].to = table[screens[s].req].from
               /\ screens'[s].amount = table[screens[s].req].amount
    <3>1. ~TypedOver(screens[s].req, screens'[s].to, screens'[s].amount)
      BY <1>1, <2>1, Zenon
    <3>2. QED
      BY <2>1, <3>1 DEF TypedOver
  <2>2. ASSUME NEW i \in DOMAIN screens', i # s, screens'[i].step # "form",
               screens'[i].req # NoRequest
        PROVE  \/ screens'[i].edited
               \/ /\ screens'[i].to = table'[screens'[i].req].from
                  /\ screens'[i].amount = table'[screens'[i].req].amount
    BY <1>1, <1>2, <2>2 DEF PaidInv, FormsFit
  <2>3. QED
    BY <1>1, <1>2, <2>1, <2>2 DEF FormsFit
<1>5. Landed'
  <2>1. ASSUME NEW i \in DOMAIN screens', screens'[i].step \in {"landed", "done"}
        PROVE  HasLanded(i)'
    <3>1. i \in DOMAIN screens /\ HasLanded(i) /\ screens'[i] = screens[i]
      BY <1>1, <2>1 DEF PaidInv, Landed
    <3>2. QED
      BY <1>2, <3>1 DEF HasLanded
  <2>2. QED
    BY <2>1 DEF Landed
<1>6. AskedStays
  BY <1>2 DEF AskedStays
<1>7. ASSUME NEW q \in DOMAIN table, PaidFor(q)
      PROVE  PaidFor(q)'
  BY <1>1, <1>2, <1>6, <1>7, PaidStays
<1>8. MarksPaid' /\ SaysPaid'
  <2>1. \A p \in patches : p.req \in DOMAIN table
    BY DEF PayInv, RequestTypes
  <2>2. QED
    BY <1>2, <1>7, <2>1 DEF PaidInv, MarksPaid, SaysPaid
<1>9. QED
  BY <1>3, <1>4, <1>5, <1>8 DEF PaidInv

\* A step of one screen that gets it no nearer to a payment.
LEMMA GotoPaid ==
    ASSUME PayInv, PaidInv, NEW s \in DOMAIN screens, NEW step \in {"form", "sending"},
           Goto(s, step), screens[s].step \in {"asked", "sending", "landed", "failed"},
           UNCHANGED <<requests, payments>>
    PROVE  PaidInv'
<1>1. /\ DOMAIN screens' = DOMAIN screens
      /\ \A i \in DOMAIN screens : i # s => screens'[i] = screens[i]
      /\ screens'[s].step = step
      /\ screens'[s].user = screens[s].user /\ screens'[s].req = screens[s].req
      /\ screens'[s].to = screens[s].to /\ screens'[s].amount = screens[s].amount
      /\ screens'[s].edited = screens[s].edited
  BY GotoStep DEF PayInv, Steps
<1>2. \A i \in DOMAIN screens :
         /\ FormKept(i)
         /\ screens'[i].step \in {"landed", "done"} => screens[i].step \in {"landed", "done"}
  BY <1>1 DEF FormKept
<1>3. Landed'
  BY <1>1, <1>2, LandedStays
<1>4. QED
  BY <1>1, <1>2, <1>3, PaidOfScreens DEF requests

\* A screen is told its payment has landed by the step that lands it.
LEMMA AnswerPaid ==
    ASSUME PayInv, PaidInv, NEW tx \in txs, Land(tx) \/ Drop(tx)
    PROVE  PaidInv'
<1>1. PICK outcome \in {"landed", "failed"} :
         /\ Hear(tx, outcome) /\ txs' = txs \ {tx} /\ UNCHANGED requests
         /\ payments \subseteq payments'
         /\ outcome = "landed" => tx \in payments'
  BY DEF Land, Drop
<1>2. /\ DOMAIN screens' = DOMAIN screens
      /\ ~tx.awaited => screens' = screens
      /\ tx.awaited =>
            /\ tx.screen \in DOMAIN screens
            /\ screens[tx.screen].step = "sending"
            /\ \A i \in DOMAIN screens : i # tx.screen => screens'[i] = screens[i]
            /\ screens'[tx.screen] = [screens[tx.screen] EXCEPT !.step = outcome]
            /\ screens'[tx.screen].step = outcome
  BY <1>1, HearStep
<1>3. ASSUME NEW i \in DOMAIN screens
      PROVE  /\ FormKept(i)
             /\ \/ screens'[i] = screens[i]
                \/ i = tx.screen /\ tx.awaited /\ screens'[i].step = outcome
  <2>1. CASE tx.awaited /\ i = tx.screen
    <3>1. screens[i] \in Screen
      BY ScreenType DEF PayInv
    <3>2. QED
      BY <1>1, <1>2, <2>1, <3>1 DEF FormKept, Screen
  <2>2. CASE ~(tx.awaited /\ i = tx.screen)
    BY <1>2, <2>2 DEF FormKept
  <2>3. QED
    BY <2>1, <2>2
<1>4. Landed'
  <2>1. ASSUME NEW i \in DOMAIN screens', screens'[i].step \in {"landed", "done"}
        PROVE  HasLanded(i)'
    <3>1. i \in DOMAIN screens /\ FormKept(i)
      BY <1>2, <1>3
    <3>2. CASE screens'[i] = screens[i]
      <4>1. HasLanded(i)
        BY <2>1, <3>1, <3>2 DEF PaidInv, Landed
      <4>2. QED
        BY <1>1, <3>2, <4>1 DEF HasLanded
    <3>3. CASE i = tx.screen /\ tx.awaited /\ screens'[i].step = outcome
      <4>1. tx \in payments'
        BY <1>1, <2>1, <3>3
      <4>2. /\ tx.from = screens[i].user /\ tx.to = screens[i].to
            /\ tx.amount = screens[i].amount
        BY <3>3 DEF PayInv, Awaits
      <4>3. QED
        BY <3>1, <3>3, <4>1, <4>2 DEF HasLanded, FormKept
    <3>4. QED
      BY <1>3, <3>1, <3>2, <3>3
  <2>2. QED
    BY <2>1 DEF Landed
<1>5. QED
  BY <1>1, <1>2, <1>3, <1>4, PaidOfScreens DEF requests

\* The mark a screen makes has its payment on the ledger.
LEMMA SentPaid ==
    ASSUME PayInv, PaidInv, NEW s \in DOMAIN screens, Sent(s)
    PROVE  PaidInv'
<1>1. /\ screens[s].step = "landed" /\ Goto(s, "done") /\ patches' = Marked(s)
      /\ UNCHANGED <<table, list, payments>>
  BY DEF Sent, At, ledger
<1>2. /\ DOMAIN screens' = DOMAIN screens
      /\ \A i \in DOMAIN screens : i # s => screens'[i] = screens[i]
      /\ screens'[s].step = "done"
      /\ screens'[s].user = screens[s].user /\ screens'[s].req = screens[s].req
      /\ screens'[s].to = screens[s].to /\ screens'[s].amount = screens[s].amount
      /\ screens'[s].edited = screens[s].edited
  BY <1>1, GotoStep DEF PayInv, Steps
<1>3. \A i \in DOMAIN screens :
         /\ FormKept(i)
         /\ screens'[i].step \in {"landed", "done"} => screens[i].step \in {"landed", "done"}
  BY <1>1, <1>2 DEF FormKept
<1>4. Landed'
  BY <1>1, <1>2, <1>3, LandedStays
<1>5. ASSUME screens[s].req # NoRequest
      PROVE  PaidFor(screens[s].req)'
  <2>1. PICK tx \in payments :
           /\ tx.screen = s /\ tx.from = screens[s].user
           /\ tx.to = screens[s].to /\ tx.amount = screens[s].amount
    BY <1>1 DEF PaidInv, Landed, HasLanded
  <2>2. /\ table[screens[s].req].to = screens[s].user
        /\ \/ screens[s].edited
           \/ /\ screens[s].to = table[screens[s].req].from
              /\ screens[s].amount = table[screens[s].req].amount
    BY <1>1, <1>5 DEF PaidInv, UsersFit, FormsFit
  <2>3. PaidBy(screens[s].req, s)'
    BY <1>1, <1>2, <2>1, <2>2 DEF PaidBy
  <2>4. QED
    BY <1>2, <2>3 DEF PaidFor
<1>6. ASSUME NEW p \in patches', p \notin patches
      PROVE  PaidFor(p.req)'
  <2>1. screens[s].req # NoRequest /\ p.req = screens[s].req
    BY <1>1, <1>6 DEF Marked
  <2>2. PaidFor(screens[s].req)'
    BY <1>5, <2>1
  <2>3. QED
    BY <1>1, <1>2, <2>1, <2>2 DEF PaidFor, PaidBy
<1>7. QED
  BY <1>1, <1>2, <1>3, <1>4, <1>6, PaidOfScreens

\* Steps of the directory, and no step at all.
LEMMA PaidApart ==
    ASSUME PaidInv, UNCHANGED <<requests, screens, ledger>>
    PROVE  PaidInv'
<1>1. ListsFit' /\ UsersFit' /\ FormsFit' /\ Landed'
  BY DEF PaidInv, ListsFit, UsersFit, FormsFit, Landed, HasLanded, requests, ledger
<1>2. MarksPaid' /\ SaysPaid'
  BY DEF PaidInv, MarksPaid, SaysPaid, PaidFor, PaidBy, requests, ledger
<1>3. QED
  BY <1>1, <1>2 DEF PaidInv

\* Every step keeps what the marks rest on.
LEMMA StepPaid == PayInv /\ PaidInv /\ [Next]_vars => PaidInv'
<1> SUFFICES ASSUME PayInv, PaidInv, [Next]_vars
             PROVE  PaidInv'
  OBVIOUS
<1>1. ASSUME NEW u \in Users, NEW to, NEW amount \in Amounts, OnAsk(u, to, amount)
      PROVE  PaidInv'
  <2>1. PICK v \in Users : CreateRequest(u, v, amount)
    BY <1>1 DEF OnAsk, Destinations
  <2>2. QED
    BY <2>1, CreatePaid
<1>2. ASSUME NEW u \in Users, LoadRequests(u)
      PROVE  PaidInv'
  BY <1>2, LoadPaid
<1>3. ASSUME NEW u \in Users, OpenSend(u)
      PROVE  PaidInv'
  BY <1>3, OpenPaid DEF OpenSend
<1>4. ASSUME NEW u \in Users,
             \/ StoreName(u) \/ RegisterUser(u) \/ Boot(u)
             \/ UpdateProfile(u) \/ SyncProfile(u)
      PROVE  PaidInv'
  BY <1>4, PaidApart DEF StoreName, RegisterUser, Boot, UpdateProfile, SyncProfile
<1>5. ASSUME NEW u \in Users, NEW n, ChangeUsername(u, n)
      PROVE  PaidInv'
  BY <1>5, PaidApart DEF ChangeUsername, Naming
<1>6. ASSUME NEW u \in Users, NEW r \in DOMAIN table, OnDecline(u, r)
      PROVE  PaidInv'
  BY <1>6, DeclinePaid
<1>7. ASSUME NEW u \in Users, NEW r \in DOMAIN table, PayCard(u, r)
      PROVE  PaidInv'
  <2>1. Open(u, r) /\ table[r].to = u
    BY <1>7 DEF PayCard, PaidInv, ListsFit
  <2>2. QED
    BY <2>1, OpenPaid
<1>8. ASSUME NEW u \in Users, NEW r \in DOMAIN table, OnPressRow(u, r)
      PROVE  PaidInv'
  BY <1>8, OpenPaid DEF OnPressRow
<1>9. ASSUME NEW p \in patches, Patch(p)
      PROVE  PaidInv'
  BY <1>9, PatchPaid
<1>10. ASSUME NEW s \in DOMAIN screens, NEW to, NEW amount \in Amounts, OnSend(s, to, amount)
       PROVE  PaidInv'
  BY <1>10, SendPaid
<1>11. ASSUME NEW s \in DOMAIN screens, SendMoney(s) \/ Refuse(s) \/ NotSent(s) \/ Lost(s)
       PROVE  PaidInv'
  <2>1. UNCHANGED <<requests, payments>>
    BY <1>11 DEF SendMoney, Refuse, NotSent, Lost, ledger
  <2>2. /\ screens[s].step \in {"asked", "sending", "landed", "failed"}
        /\ Goto(s, "form") \/ Goto(s, "sending")
    BY <1>11 DEF SendMoney, Submit, Refuse, NotSent, Lost, At
  <2>3. QED
    BY <2>1, <2>2, GotoPaid
<1>12. ASSUME NEW s \in DOMAIN screens, Sent(s)
       PROVE  PaidInv'
  BY <1>12, SentPaid
<1>13. ASSUME NEW tx \in txs, Land(tx) \/ Drop(tx)
       PROVE  PaidInv'
  BY <1>13, AnswerPaid
<1>14. CASE UNCHANGED vars
  BY <1>14, PaidApart DEF vars
<1>15. QED
  BY <1>1, <1>2, <1>3, <1>4, <1>5, <1>6, <1>7, <1>8, <1>9, <1>10, <1>11, <1>12, <1>13, <1>14
     DEF Next

\* A request that says it is paid has been, by the one who was asked, to the one
\* who asked and in full, unless that was typed over on the screen that paid it:
\* the mark comes from a screen, and a screen marks what its payment is known for.
THEOREM PaidMeansPaid == Spec => []PaidIsPaid
<1>1. PaidInv => PaidIsPaid
  <2> SUFFICES ASSUME PaidInv, NEW r \in DOMAIN table, table[r].status = "paid"
               PROVE  \E s \in DOMAIN screens :
                         /\ screens[s].req = r
                         /\ \E tx \in PaymentsOf(s) :
                               /\ tx.from = table[r].to
                               /\ \/ screens[s].edited
                                  \/ tx.to = table[r].from /\ tx.amount = table[r].amount
    BY DEF PaidIsPaid
  <2>1. PICK s \in DOMAIN screens : PaidBy(r, s)
    BY DEF PaidInv, SaysPaid, PaidFor
  <2>2. QED
    BY <2>1 DEF PaidBy, PaymentsOf
<1>2. QED
  BY <1>1, InitPay, InitPaid, StepPay, StepPaid, PTL DEF Spec

----------------------------------------------------------------------------
(* A screen pays once *)

\* While no answer is lost, every transaction is waited for, and what a screen has
\* paid it knows of.
OnceInv == ~slip =>
    /\ \A tx \in txs : tx.awaited
    /\ \A tx \in payments : screens[tx.screen].step \in {"landed", "done"}
    /\ \A tx, other \in payments : tx.screen = other.screen => tx = other

\* Steps that land nothing and leave what a screen knows.
LEMMA OnceStays ==
    ASSUME PayInv, OnceInv, UNCHANGED <<slip, payments>>, \A tx \in txs' : tx \in txs \/ tx.awaited,
           \A i \in DOMAIN screens : screens[i].step \in {"landed", "done"} =>
              screens'[i].step \in {"landed", "done"}
    PROVE  OnceInv'
<1>1. \A tx \in payments : tx.screen \in DOMAIN screens
  BY DEF PayInv, LedgerTypes, Payment
<1>2. QED
  BY <1>1 DEF OnceInv

\* A payment lands for a screen that has had none.
LEMMA LandOnce ==
    ASSUME PayInv, OnceInv, NEW tx \in txs, Land(tx)
    PROVE  OnceInv'
<1>1. /\ Hear(tx, "landed") /\ txs' = txs \ {tx} /\ payments' = payments \cup {tx}
      /\ UNCHANGED slip
  BY DEF Land
<1> SUFFICES ASSUME ~slip
             PROVE  /\ \A w \in txs' : w.awaited
                    /\ \A w \in payments' : screens'[w.screen].step \in {"landed", "done"}
                    /\ \A w, other \in payments' : w.screen = other.screen => w = other
  BY <1>1 DEF OnceInv
<1>2. tx.awaited
  BY DEF OnceInv
<1>3. /\ screens[tx.screen].step = "sending" /\ screens'[tx.screen].step = "landed"
      /\ \A i \in DOMAIN screens : i # tx.screen => screens'[i] = screens[i]
  BY <1>1, <1>2, HearStep
<1>4. \A w \in payments : w.screen \in DOMAIN screens /\ w.screen # tx.screen
  BY <1>3 DEF OnceInv, PayInv, LedgerTypes, Payment
<1>5. QED
  BY <1>1, <1>3, <1>4 DEF OnceInv

\* A transaction that is refused leaves its screen unpaid.
LEMMA DropOnce ==
    ASSUME PayInv, OnceInv, NEW tx \in txs, Drop(tx)
    PROVE  OnceInv'
<1>1. Hear(tx, "failed") /\ txs' = txs \ {tx} /\ UNCHANGED <<slip, payments>>
  BY DEF Drop
<1>2. /\ ~tx.awaited => screens' = screens
      /\ tx.awaited =>
            /\ screens[tx.screen].step = "sending"
            /\ \A i \in DOMAIN screens : i # tx.screen => screens'[i] = screens[i]
  BY <1>1, HearStep
<1>3. QED
  BY <1>1, <1>2, OnceStays

\* A screen takes a step that is not back from a payment it knows of.
LEMMA GotoOnce ==
    ASSUME PayInv, OnceInv, NEW s \in DOMAIN screens, NEW step \in Steps, Goto(s, step),
           UNCHANGED <<slip, payments>>, \A tx \in txs' : tx \in txs \/ tx.awaited,
           screens[s].step \in {"landed", "done"} => step \in {"landed", "done"}
    PROVE  OnceInv'
<1>1. /\ \A i \in DOMAIN screens : i # s => screens'[i] = screens[i]
      /\ screens'[s].step = step
  BY GotoStep DEF PayInv
<1>2. QED
  BY <1>1, OnceStays

\* Every step keeps what a single payment rests on.
LEMMA StepOnce == PayInv /\ OnceInv /\ [Next]_vars => OnceInv'
<1> SUFFICES ASSUME PayInv, OnceInv, [Next]_vars
             PROVE  OnceInv'
  OBVIOUS
<1> USE DEF ledger
<1>1. ASSUME UNCHANGED <<screens, ledger, slip>>
      PROVE  OnceInv'
  BY <1>1 DEF OnceInv
<1>2. ASSUME NEW u \in Users, NEW r \in {NoRequest} \cup DOMAIN table, Open(u, r)
      PROVE  OnceInv'
  <2>1. \A s \in DOMAIN screens : screens'[s] = screens[s]
    BY <1>2, OpenPay
  <2>2. QED
    BY <1>2, <2>1, OnceStays DEF Open
<1>3. ASSUME NEW u \in Users, NEW to, NEW amount, OnAsk(u, to, amount)
      PROVE  OnceInv'
  BY <1>1, <1>3 DEF OnAsk, CreateRequest
<1>4. ASSUME NEW u \in Users,
             \/ LoadRequests(u) \/ OpenSend(u) \/ StoreName(u) \/ RegisterUser(u)
             \/ Boot(u) \/ UpdateProfile(u) \/ SyncProfile(u)
      PROVE  OnceInv'
  BY <1>1, <1>2, <1>4 DEF LoadRequests, OpenSend, StoreName, RegisterUser, Boot,
                         UpdateProfile, SyncProfile
<1>5. ASSUME NEW u \in Users, NEW r \in DOMAIN table,
             OnDecline(u, r) \/ PayCard(u, r) \/ OnPressRow(u, r)
      PROVE  OnceInv'
  BY <1>1, <1>2, <1>5 DEF OnDecline, PayCard, OnPressRow
<1>6. ASSUME NEW u \in Users, NEW n, ChangeUsername(u, n)
      PROVE  OnceInv'
  BY <1>1, <1>6 DEF ChangeUsername, Naming
<1>7. ASSUME NEW p, Patch(p)
      PROVE  OnceInv'
  BY <1>1, <1>7 DEF Patch
<1>8. ASSUME NEW s \in DOMAIN screens, NEW to, NEW amount \in Amounts, OnSend(s, to, amount)
      PROVE  OnceInv'
  <2>1. /\ screens[s].step = "form"
        /\ \A i \in DOMAIN screens : i # s => screens'[i] = screens[i]
    BY <1>8, SendPay
  <2>2. UNCHANGED <<slip, payments, txs>>
    BY <1>8 DEF OnSend, OnSendAt
  <2>3. QED
    BY <2>1, <2>2, OnceStays
<1>9. ASSUME NEW s \in DOMAIN screens, SendMoney(s)
      PROVE  OnceInv'
  <2>1. /\ screens[s].step = "asked" /\ Goto(s, "sending") /\ UNCHANGED <<slip, payments>>
        /\ \A tx \in txs' : tx \in txs \/ tx.awaited
    BY <1>9 DEF SendMoney, Submit, At
  <2>2. QED
    BY <2>1, GotoOnce DEF Steps
<1>10. ASSUME NEW s \in DOMAIN screens, Refuse(s) \/ NotSent(s)
       PROVE  OnceInv'
  BY <1>10, GotoOnce DEF Refuse, NotSent, At, Steps
<1>11. ASSUME NEW s \in DOMAIN screens, Sent(s)
       PROVE  OnceInv'
  BY <1>11, GotoOnce DEF Sent, At, Steps
<1>12. ASSUME NEW s \in DOMAIN screens, Lost(s)
       PROVE  OnceInv'
  BY <1>12 DEF Lost, OnceInv
<1>13. ASSUME NEW tx \in txs, Land(tx) \/ Drop(tx)
       PROVE  OnceInv'
  BY <1>13, LandOnce, DropOnce
<1>14. CASE UNCHANGED vars
  BY <1>1, <1>14 DEF vars
<1>15. QED
  BY <1>3, <1>4, <1>5, <1>6, <1>7, <1>8, <1>9, <1>10, <1>11, <1>12, <1>13, <1>14 DEF Next

\* However often its button is pressed, a send screen pays once, as long as no
\* answer of the ledger is lost: it gets back to its form only when it knows that
\* nothing was paid.
THEOREM PaysOnceCorrect == Spec => []PaysOnce
<1>1. Init => OnceInv
  BY DEF Init, OnceInv
<1>2. OnceInv => PaysOnce
  <2> SUFFICES ASSUME OnceInv, ~slip, NEW s \in DOMAIN screens
               PROVE  Cardinality(PaymentsOf(s)) <= 1
    BY DEF PaysOnce
  <2>1. CASE PaymentsOf(s) = {}
    BY <2>1, FS_EmptySet
  <2>2. ASSUME NEW tx \in PaymentsOf(s)
        PROVE  Cardinality(PaymentsOf(s)) <= 1
    <3>1. PaymentsOf(s) = {tx}
      BY <2>2 DEF OnceInv, PaymentsOf
    <3>2. QED
      BY <3>1, FS_Singleton
  <2>3. QED
    BY <2>1, <2>2
<1>3. QED
  BY <1>1, <1>2, InitPay, StepPay, StepOnce, PTL DEF Spec
=============================================================================
