----------------------- MODULE ReinjectionTableProofs -----------------------
(***************************************************************************)
(* What the token table remembers, for every number of slots and every     *)
(* token ceiling.  The argument is that a token has one place: tokens and  *)
(* slots advance together, so that the token issued a calls ago was        *)
(* written a slots behind the write index, and its slot is overwritten     *)
(* exactly when a reaches the number of slots.                             *)
(***************************************************************************)
EXTENDS ReinjectionTable, WellFoundedInduction, TLAPS

Age(table, t) == table.next_token - t

InWindow(table, t) == Age(table, t) \in 1 .. TableSlots

(* The slot t was written to, if it is in the window. *)
PlaceOf(table, t) ==
  IF table.write_index >= Age(table, t)
  THEN table.write_index - Age(table, t)
  ELSE table.write_index - Age(table, t) + TableSlots

(* ids: the packet each token was issued for; used: the tokens consumed.   *)
EntriesInPlace(table, ids, used) ==
  \A i \in TableSlot : table.slots[i] # None =>
    LET t == table.slots[i].token
    IN  /\ t \in Token \ used
        /\ InWindow(table, t)
        /\ i = PlaceOf(table, t)
        /\ table.slots[i].packet_id = ids[t]

WindowHeld(table, ids, used) ==
  \A t \in Token \ used :
    InWindow(table, t) =>
      table.slots[PlaceOf(table, t)] = [token |-> t, packet_id |-> ids[t]]

UsedWereIssued(table, used) == \A t \in used : t < table.next_token

TableInv(table, ids, used) ==
  /\ EntriesInPlace(table, ids, used)
  /\ WindowHeld(table, ids, used)
  /\ UsedWereIssued(table, used)

-----------------------------------------------------------------------------
(* A non-empty set of slots has a first one. *)
LEMMA FirstSlot ==
  ASSUME NEW S \in SUBSET TableSlot, S # {}
  PROVE  \E i \in S : \A j \in S : i <= j
  <1> DEFINE R == OpToRel(<, Nat)
  <1>1. IsWellFoundedOn(R, Nat)
    BY NatLessThanWellFounded
  <1>2. S \subseteq Nat
    BY TableAssumption DEF TableSlot
  <1>3. PICK i \in S : \A j \in S : ~ (<<j, i>> \in R)
    BY <1>1, <1>2, WFMin
  <1>4. \A j \in S : ~ (j < i)
    BY <1>2, <1>3 DEF OpToRel
  <1> QED
    BY <1>2, <1>4

(* consume takes a slot that holds the token. *)
LEMMA SlotOfHolds ==
  ASSUME NEW table, NEW token, HoldsToken(table, token)
  PROVE  /\ SlotOf(table, token) \in TableSlot
         /\ table.slots[SlotOf(table, token)] # None
         /\ table.slots[SlotOf(table, token)].token = token
  <1>1. Holders(table, token) \in SUBSET TableSlot /\ Holders(table, token) # {}
    BY DEF Holders, HoldsToken
  <1>2. \E i \in Holders(table, token) : \A j \in Holders(table, token) : i <= j
    BY <1>1, FirstSlot
  <1>3. SlotOf(table, token) \in Holders(table, token)
    BY <1>2 DEF SlotOf
  <1> QED
    BY <1>3 DEF Holders

(* The write index wraps. *)
LEMMA NextWriteIndex ==
  ASSUME NEW i \in TableSlot
  PROVE  /\ (i + 1) % TableSlots = IF i + 1 < TableSlots THEN i + 1 ELSE 0
         /\ (i + 1) % TableSlots \in TableSlot
  <1>1. TableSlots \in Nat \ {0} /\ i \in 0 .. TableSlots - 1
    BY TableAssumption DEF TableSlot
  <1>2. CASE i + 1 < TableSlots
    <2>1. (i + 1) % TableSlots = i + 1
      BY <1>1, <1>2
    <2> QED
      BY <1>1, <1>2, <2>1 DEF TableSlot
  <1>3. CASE i + 1 = TableSlots
    <2>1. TableSlots % TableSlots = 0
      BY <1>1
    <2> QED
      BY <1>1, <1>3, <2>1 DEF TableSlot
  <1> QED
    BY <1>1, <1>2, <1>3

(* Types.                                                                  *)
LEMMA TableTypes ==
  ASSUME NEW PacketIds, NEW table \in Tables(PacketIds)
  PROVE  /\ NewTable \in Tables(PacketIds)
         /\ \A p \in PacketIds : Issue(table, p) \in Tables(PacketIds)
         /\ \A t : HoldsToken(table, t) =>
              /\ Consume(table, t) \in Tables(PacketIds)
              /\ PacketIdOf(table, t) \in PacketIds
  <1>1. NewTable \in Tables(PacketIds)
    BY TableAssumption DEF NewTable, Tables, Token, TableSlot
  <1>2. ASSUME NEW p \in PacketIds
        PROVE  Issue(table, p) \in Tables(PacketIds)
    <2>1. /\ table.next_token \in Token /\ table.write_index \in TableSlot
          /\ table.slots \in [TableSlot -> Entry(PacketIds) \cup {None}]
      BY DEF Tables
    <2>2. (IF table.next_token < MaxToken THEN table.next_token + 1 ELSE table.next_token) \in Token
      BY <2>1, TableAssumption DEF Token
    <2>3. (table.write_index + 1) % TableSlots \in TableSlot
      BY <2>1, NextWriteIndex
    <2>4. [token |-> table.next_token, packet_id |-> p] \in Entry(PacketIds)
      BY <2>1 DEF Entry
    <2>5. [table.slots EXCEPT ![table.write_index] = [token |-> table.next_token, packet_id |-> p]]
            \in [TableSlot -> Entry(PacketIds) \cup {None}]
      BY <2>1, <2>4
    <2> QED
      BY <2>2, <2>3, <2>5 DEF Issue, Tables
  <1>3. ASSUME NEW t, HoldsToken(table, t)
        PROVE  Consume(table, t) \in Tables(PacketIds) /\ PacketIdOf(table, t) \in PacketIds
    BY <1>3, SlotOfHolds DEF Consume, PacketIdOf, Tables, Entry
  <1> QED
    BY <1>1, <1>2, <1>3

-----------------------------------------------------------------------------
(* A place is a slot, and slots are different for different tokens.        *)
LEMMA PlaceProperties ==
  ASSUME NEW PacketIds, NEW table \in Tables(PacketIds),
         NEW t \in Int, InWindow(table, t)
  PROVE  /\ PlaceOf(table, t) \in TableSlot
         /\ PlaceOf(table, t) = table.write_index <=> Age(table, t) = TableSlots
  <1>1. /\ table.write_index \in 0 .. TableSlots - 1
        /\ Age(table, t) \in 1 .. TableSlots
        /\ TableSlots \in Nat \ {0}
    BY TableAssumption DEF Tables, TableSlot, InWindow
  <1> QED
    BY <1>1 DEF PlaceOf, TableSlot

LEMMA NewTableInv ==
  ASSUME NEW ids
  PROVE  TableInv(NewTable, ids, {})
  BY TableAssumption
     DEF TableInv, EntriesInPlace, WindowHeld, UsedWereIssued, NewTable, InWindow, Age, Token

(* issue moves every token's age by one and none's place. *)
LEMMA IssueMovesNothing ==
  ASSUME NEW PacketIds, NEW table \in Tables(PacketIds), NEW p,
         table.next_token < MaxToken, NEW t \in Int
  PROVE  /\ Age(Issue(table, p), t) = Age(table, t) + 1
         /\ InWindow(Issue(table, p), t) <=>
              t = table.next_token \/ (InWindow(table, t) /\ Age(table, t) # TableSlots)
         /\ InWindow(table, t) /\ Age(table, t) # TableSlots =>
              PlaceOf(Issue(table, p), t) = PlaceOf(table, t)
         /\ PlaceOf(Issue(table, p), table.next_token) = table.write_index
  <1> DEFINE new == Issue(table, p)
  <1>1. /\ TableSlots \in Nat \ {0} /\ table.next_token \in Int
        /\ table.write_index \in 0 .. TableSlots - 1 /\ table.write_index \in TableSlot
    BY TableAssumption DEF Tables, TableSlot, Token
  <1>2. /\ new.next_token = table.next_token + 1
        /\ new.write_index = IF table.write_index + 1 < TableSlots THEN table.write_index + 1 ELSE 0
    BY <1>1, NextWriteIndex DEF Issue
  <1> HIDE DEF new
  <1>3. Age(new, t) = Age(table, t) + 1 /\ Age(table, t) = table.next_token - t
    BY <1>1, <1>2 DEF Age
  <1>4. Age(new, table.next_token) = 1
    BY <1>1, <1>2 DEF Age
  <1>5. InWindow(new, t) <=>
          t = table.next_token \/ (InWindow(table, t) /\ Age(table, t) # TableSlots)
    BY <1>1, <1>3 DEF InWindow
  <1>6. InWindow(table, t) /\ Age(table, t) # TableSlots => PlaceOf(new, t) = PlaceOf(table, t)
    BY <1>1, <1>2, <1>3 DEF PlaceOf, InWindow
  <1>7. PlaceOf(new, table.next_token) = table.write_index
    BY <1>1, <1>2, <1>4 DEF PlaceOf
  <1> QED
    BY <1>3, <1>5, <1>6, <1>7 DEF new

(* Below the ceiling issue remembers the new token and forgets only the    *)
(* one that is a full turn old.                                            *)
LEMMA IssueKeepsTableInv ==
  ASSUME NEW PacketIds, NEW table \in Tables(PacketIds), NEW p \in PacketIds,
         NEW ids \in [Token -> PacketIds \cup {0}], NEW used \in SUBSET Token,
         table.next_token < MaxToken, TableInv(table, ids, used)
  PROVE  TableInv(Issue(table, p), [ids EXCEPT ![table.next_token] = p], used)
  <1> DEFINE new == Issue(table, p)
             ids2 == [ids EXCEPT ![table.next_token] = p]
             n == table.next_token
             w == table.write_index
  <1>1. /\ n \in Token /\ w \in TableSlot
        /\ table.slots \in [TableSlot -> Entry(PacketIds) \cup {None}]
        /\ Token \subseteq Int
    BY DEF Tables, Token
  <1>2. /\ new.slots = [table.slots EXCEPT ![w] = [token |-> n, packet_id |-> p]]
        /\ new.next_token = n + 1
    BY DEF Issue
  <1>3. n \notin used /\ UsedWereIssued(new, used)
    <2>1. \A t \in used : t < n /\ t \in Int
      BY <1>1 DEF TableInv, UsedWereIssued
    <2> HIDE DEF new, n
    <2>2. n \in Int
      BY <1>1
    <2>3. \A t \in used : t < new.next_token
      BY <1>2, <2>1, <2>2
    <2> QED
      BY <2>1, <2>2, <2>3 DEF UsedWereIssued
  <1>4. \A t \in Token : t # n => ids2[t] = ids[t]
    OBVIOUS
  <1>5. ids2[n] = p
    BY <1>1
  <1>6. \A t \in Token : InWindow(table, t) => t # n
    BY <1>1, TableAssumption DEF InWindow, Age
  <1>7. \A t \in Token : InWindow(table, t) =>
          /\ PlaceOf(table, t) \in TableSlot
          /\ PlaceOf(table, t) = w <=> Age(table, t) = TableSlots
    BY <1>1, PlaceProperties
  <1>8. \A t \in Token :
          /\ InWindow(new, t) <=> t = n \/ (InWindow(table, t) /\ Age(table, t) # TableSlots)
          /\ InWindow(table, t) /\ Age(table, t) # TableSlots => PlaceOf(new, t) = PlaceOf(table, t)
          /\ PlaceOf(new, n) = w
    BY <1>1, IssueMovesNothing
  <1> HIDE DEF new, ids2, n, w
  <1>9. ASSUME NEW i \in TableSlot, new.slots[i] # None
        PROVE  /\ new.slots[i].token \in Token \ used
               /\ InWindow(new, new.slots[i].token)
               /\ i = PlaceOf(new, new.slots[i].token)
               /\ new.slots[i].packet_id = ids2[new.slots[i].token]
    <2>1. CASE i = w
      <3>1. new.slots[i] = [token |-> n, packet_id |-> p]
        BY <1>1, <1>2, <2>1
      <3>2. new.slots[i].token = n /\ new.slots[i].packet_id = p
        BY <3>1
      <3> QED
        BY <1>1, <1>3, <1>5, <1>8, <2>1, <3>2
    <2>2. CASE i # w
      <3> DEFINE t == table.slots[i].token
      <3>1. new.slots[i] = table.slots[i]
        BY <1>1, <1>2, <2>2
      <3>2. /\ t \in Token \ used /\ InWindow(table, t) /\ i = PlaceOf(table, t)
            /\ table.slots[i].packet_id = ids[t]
        BY <1>9, <3>1 DEF TableInv, EntriesInPlace
      <3> HIDE DEF t
      <3>3. Age(table, t) # TableSlots /\ t # n
        BY <1>6, <1>7, <2>2, <3>2
      <3>4. InWindow(new, t) /\ PlaceOf(new, t) = i /\ ids2[t] = ids[t]
        BY <1>4, <1>8, <3>2, <3>3
      <3> QED
        BY <3>1, <3>2, <3>4 DEF t
    <2> QED
      BY <2>1, <2>2
  <1>10. ASSUME NEW t \in Token \ used, InWindow(new, t)
         PROVE  new.slots[PlaceOf(new, t)] = [token |-> t, packet_id |-> ids2[t]]
    <2>1. CASE t = n
      BY <1>1, <1>2, <1>5, <1>8, <2>1
    <2>2. CASE t # n
      <3>1. InWindow(table, t) /\ Age(table, t) # TableSlots /\ PlaceOf(new, t) = PlaceOf(table, t)
        BY <1>8, <1>10, <2>2
      <3>2. PlaceOf(table, t) \in TableSlot /\ PlaceOf(table, t) # w
        BY <1>7, <3>1
      <3>3. table.slots[PlaceOf(table, t)] = [token |-> t, packet_id |-> ids[t]]
        BY <3>1 DEF TableInv, WindowHeld
      <3>4. new.slots[PlaceOf(table, t)] = table.slots[PlaceOf(table, t)]
        BY <1>1, <1>2, <3>2
      <3> QED
        BY <1>4, <2>2, <3>1, <3>3, <3>4
    <2> QED
      BY <2>1, <2>2
  <1>11. EntriesInPlace(new, ids2, used)
    BY <1>9 DEF EntriesInPlace
  <1>12. WindowHeld(new, ids2, used)
    BY <1>10 DEF WindowHeld
  <1> QED
    BY <1>3, <1>11, <1>12 DEF TableInv, new, ids2, n

(* consume forgets exactly the token it hands out, with its own packet.    *)
LEMMA ConsumeKeepsTableInv ==
  ASSUME NEW PacketIds, NEW table \in Tables(PacketIds), NEW ids,
         NEW used \in SUBSET Token, NEW token \in Token, HoldsToken(table, token),
         TableInv(table, ids, used)
  PROVE  /\ TableInv(Consume(table, token), ids, used \cup {token})
         /\ PacketIdOf(table, token) = ids[token]
         /\ token \notin used
         /\ InWindow(table, token)
         /\ token < table.next_token
  <1> DEFINE new == Consume(table, token)
             s == SlotOf(table, token)
             used2 == used \cup {token}
  <1>1. s \in TableSlot /\ table.slots[s] # None /\ table.slots[s].token = token
    BY SlotOfHolds
  <1>2. /\ new.next_token = table.next_token /\ new.write_index = table.write_index
        /\ new.slots = [table.slots EXCEPT ![s] = None]
    BY DEF Consume
  <1>3. \A t : /\ Age(new, t) = Age(table, t)
               /\ InWindow(new, t) <=> InWindow(table, t)
               /\ PlaceOf(new, t) = PlaceOf(table, t)
    BY <1>2 DEF Age, InWindow, PlaceOf
  <1>4. /\ token \notin used /\ InWindow(table, token) /\ s = PlaceOf(table, token)
        /\ table.slots[s].packet_id = ids[token]
    BY <1>1 DEF TableInv, EntriesInPlace
  <1>5. token < table.next_token
    BY <1>4, TableAssumption DEF InWindow, Age, Tables, Token
  <1>6. table.slots \in [TableSlot -> Entry(PacketIds) \cup {None}] /\ Token \subseteq Int
    BY DEF Tables, Token
  <1> HIDE DEF new, s, used2
  <1>7. ASSUME NEW i \in TableSlot, new.slots[i] # None
        PROVE  /\ new.slots[i].token \in Token \ used2
               /\ InWindow(new, new.slots[i].token)
               /\ i = PlaceOf(new, new.slots[i].token)
               /\ new.slots[i].packet_id = ids[new.slots[i].token]
    <2>1. i # s /\ new.slots[i] = table.slots[i]
      BY <1>1, <1>2, <1>6, <1>7
    <2> DEFINE t == table.slots[i].token
    <2>2. /\ t \in Token \ used /\ InWindow(table, t) /\ i = PlaceOf(table, t)
          /\ table.slots[i].packet_id = ids[t]
      BY <1>7, <2>1 DEF TableInv, EntriesInPlace
    <2>3. t # token
      BY <1>4, <2>1, <2>2
    <2> QED
      BY <1>3, <2>1, <2>2, <2>3 DEF used2
  <1>8. ASSUME NEW t \in Token \ used2, InWindow(new, t)
        PROVE  new.slots[PlaceOf(new, t)] = [token |-> t, packet_id |-> ids[t]]
    <2>1. InWindow(table, t) /\ t \in Token \ used /\ t # token
      BY <1>3, <1>8 DEF used2
    <2>2. table.slots[PlaceOf(table, t)] = [token |-> t, packet_id |-> ids[t]]
      BY <2>1 DEF TableInv, WindowHeld
    <2>3. PlaceOf(table, t) # s
      BY <1>1, <2>1, <2>2
    <2>4. PlaceOf(table, t) \in TableSlot
      BY <1>6, <2>1, PlaceProperties
    <2> QED
      BY <1>2, <1>3, <1>6, <2>2, <2>3, <2>4
  <1>9. UsedWereIssued(new, used2)
    BY <1>2, <1>5 DEF TableInv, UsedWereIssued, used2
  <1> QED
    BY <1>4, <1>5, <1>7, <1>8, <1>9
       DEF TableInv, EntriesInPlace, WindowHeld, PacketIdOf, new, s, used2

(* The live entries are those of the unused tokens in the window. *)
LEMMA LiveIsWindow ==
  ASSUME NEW PacketIds, NEW table \in Tables(PacketIds), NEW ids,
         NEW used \in SUBSET Token, TableInv(table, ids, used)
  PROVE  Live(table) = {[token |-> t, packet_id |-> ids[t]] :
                          t \in {u \in Token : InWindow(table, u)} \ used}
  <1>1. ASSUME NEW e \in Live(table)
        PROVE  \E t \in {u \in Token : InWindow(table, u)} \ used :
                 e = [token |-> t, packet_id |-> ids[t]]
    <2>1. PICK i \in TableSlot : e = table.slots[i] /\ e # None
      BY <1>1 DEF Live
    <2>2. /\ e.token \in Token \ used /\ InWindow(table, e.token) /\ e.packet_id = ids[e.token]
      BY <2>1 DEF TableInv, EntriesInPlace
    <2>3. e \in Entry(PacketIds)
      BY <2>1 DEF Tables
    <2>4. e = [token |-> e.token, packet_id |-> ids[e.token]]
      BY <2>2, <2>3 DEF Entry
    <2> QED
      BY <2>2, <2>4
  <1>2. ASSUME NEW t \in {u \in Token : InWindow(table, u)} \ used
        PROVE  [token |-> t, packet_id |-> ids[t]] \in Live(table)
    <2>1. table.slots[PlaceOf(table, t)] = [token |-> t, packet_id |-> ids[t]]
      BY <1>2 DEF TableInv, WindowHeld
    <2>2. PlaceOf(table, t) \in TableSlot
      BY <1>2, PlaceProperties DEF Token
    <2>3. [token |-> t, packet_id |-> ids[t]] # None
      BY <1>2 DEF Token, None
    <2> QED
      BY <2>1, <2>2, <2>3 DEF Live
  <1> QED
    BY <1>1, <1>2

(* What issue does to the live entries: the one that has seen TableSlots   *)
(* captures goes, the new one comes.                                       *)
LEMMA IssueForgetsTheOldest ==
  ASSUME NEW PacketIds, NEW table \in Tables(PacketIds), NEW p \in PacketIds,
         NEW ids \in [Token -> PacketIds \cup {0}], NEW used \in SUBSET Token,
         table.next_token < MaxToken, TableInv(table, ids, used)
  PROVE  Live(Issue(table, p)) =
           {e \in Live(table) : table.next_token - e.token < TableSlots}
             \cup {[token |-> table.next_token, packet_id |-> p]}
  <1> DEFINE new == Issue(table, p)
             n == table.next_token
             ids2 == [ids EXCEPT ![n] = p]
             old == {u \in Token : InWindow(table, u)} \ used
  <1>1. n \in Token /\ Token \subseteq Int /\ TableSlots \in Nat
    BY TableAssumption DEF Tables, Token
  <1>2. Live(table) = {[token |-> t, packet_id |-> ids[t]] : t \in old}
    BY LiveIsWindow
  <1>3. Live(new) = {[token |-> t, packet_id |-> ids2[t]] :
                       t \in {u \in Token : InWindow(new, u)} \ used}
    <2>1. new \in Tables(PacketIds) /\ TableInv(new, ids2, used)
      BY TableTypes, IssueKeepsTableInv
    <2> HIDE DEF new, ids2
    <2> QED
      BY <2>1, LiveIsWindow
  <1>4. n \notin used /\ ids2[n] = p /\ \A t \in Token : t # n => ids2[t] = ids[t]
    <2>1. \A t \in used : t < n
      BY DEF TableInv, UsedWereIssued
    <2>2. ids2[n] = p /\ \A t \in Token : t # n => ids2[t] = ids[t]
      BY <1>1
    <2> HIDE DEF n, ids2
    <2>3. ~ (n < n)
      BY <1>1
    <2> QED
      BY <2>1, <2>2, <2>3
  <1>5. \A t \in Token : InWindow(new, t) <=> t = n \/ (InWindow(table, t) /\ n - t # TableSlots)
    BY <1>1, IssueMovesNothing DEF Age
  <1>6. \A t \in old : t # n /\ (n - t # TableSlots <=> n - t < TableSlots)
    BY <1>1 DEF InWindow, Age
  <1> HIDE DEF new, n, ids2
  <1>7. {u \in Token : InWindow(new, u)} \ used = {t \in old : n - t < TableSlots} \cup {n}
    BY <1>1, <1>4, <1>5, <1>6
  <1>8. \A t \in old : ids2[t] = ids[t]
    BY <1>4, <1>6
  <1>9. Live(new) = {[token |-> t, packet_id |-> ids[t]] : t \in {u \in old : n - u < TableSlots}}
                      \cup {[token |-> n, packet_id |-> p]}
    BY <1>3, <1>4, <1>7, <1>8
  <1>10. {e \in Live(table) : n - e.token < TableSlots} =
           {[token |-> t, packet_id |-> ids[t]] : t \in {u \in old : n - u < TableSlots}}
    BY <1>2
  <1> QED
    BY <1>9, <1>10 DEF new, n

(* consume takes one live entry, and no other. *)
LEMMA ConsumeTakesOne ==
  ASSUME NEW PacketIds, NEW table \in Tables(PacketIds), NEW ids,
         NEW used \in SUBSET Token, NEW token \in Token, HoldsToken(table, token),
         TableInv(table, ids, used)
  PROVE  /\ [token |-> token, packet_id |-> ids[token]] \in Live(table)
         /\ Live(Consume(table, token)) =
              Live(table) \ {[token |-> token, packet_id |-> ids[token]]}
  <1> DEFINE new == Consume(table, token)
             old == {u \in Token : InWindow(table, u)} \ used
  <1>1. Live(table) = {[token |-> t, packet_id |-> ids[t]] : t \in old}
    BY LiveIsWindow
  <1>2. /\ TableInv(new, ids, used \cup {token})
        /\ token \in old
        /\ new \in Tables(PacketIds) /\ new.next_token = table.next_token
    BY ConsumeKeepsTableInv, TableTypes DEF Consume
  <1>3. {u \in Token : InWindow(new, u)} \ (used \cup {token}) = old \ {token}
    BY <1>2 DEF InWindow, Age
  <1> HIDE DEF new, old
  <1>4. Live(new) = {[token |-> t, packet_id |-> ids[t]] : t \in old \ {token}}
    <2>1. used \cup {token} \in SUBSET Token
      OBVIOUS
    <2> QED
      BY <1>2, <1>3, <2>1, LiveIsWindow
  <1>5. \A t \in old : [token |-> t, packet_id |-> ids[t]] = [token |-> token, packet_id |-> ids[token]]
                        <=> t = token
    OBVIOUS
  <1> QED
    BY <1>1, <1>2, <1>4, <1>5 DEF new

=============================================================================
