-------------------------- MODULE ReinjectionTable --------------------------
(***************************************************************************)
(* The table of reinjection tokens of the driver core                      *)
(* (driver/wd-kmdf-core: FixedReinjectionTable<N>, wrapped with N = 256 by *)
(* driver/wd-kmdf/src/reinject.rs).  A table is a record                   *)
(*   next_token   the token the next issue returns,                        *)
(*   write_index  the slot the next issue writes,                          *)
(*   slots        None, or the token and the packet id it was issued for.  *)
(* The operators are pure; the modules that own a table prime it.          *)
(***************************************************************************)
EXTENDS Integers

CONSTANTS
  TableSlots,  \* N: the number of slots
  MaxToken     \* u64::MAX, where the token counter saturates

ASSUME TableAssumption ==
  /\ TableSlots \in Nat \ {0}
  /\ MaxToken \in Nat \ {0, 1}

TableSlot == 0 .. TableSlots - 1

Token == 1 .. MaxToken

None == [token |-> 0, packet_id |-> 0]

(* FixedReinjectionTable::new *)
NewTable ==
  [next_token |-> 1, write_index |-> 0, slots |-> [i \in TableSlot |-> None]]

Entry(PacketIds) == [token : Token, packet_id : PacketIds]

Tables(PacketIds) ==
  [next_token : Token, write_index : TableSlot,
   slots : [TableSlot -> Entry(PacketIds) \cup {None}]]

-----------------------------------------------------------------------------
(* The table after issue_for_network_packet, which returns                 *)
(* table.next_token: the slot under the write index is overwritten,        *)
(* whatever it holds.                                                      *)
Issue_FrozenIndex(table, packet_id) ==
  [table EXCEPT
     !.slots[table.write_index] = [token |-> table.next_token, packet_id |-> packet_id],
     !.next_token = IF @ < MaxToken THEN @ + 1 ELSE @]

Issue_ReusedToken(table, packet_id) ==
  [table EXCEPT
     !.slots[table.write_index] = [token |-> table.next_token, packet_id |-> packet_id],
     !.write_index = (@ + 1) % TableSlots,
     !.next_token = IF table.write_index = TableSlots - 1 THEN 1
                    ELSE IF @ < MaxToken THEN @ + 1 ELSE @]

Issue(table, packet_id) ==
  [next_token  |-> IF table.next_token < MaxToken THEN table.next_token + 1
                   ELSE table.next_token,
   write_index |-> (table.write_index + 1) % TableSlots,
   slots       |-> [table.slots EXCEPT ![table.write_index] =
                      [token |-> table.next_token, packet_id |-> packet_id]]]

Holders(table, token) ==
  {i \in TableSlot : table.slots[i] # None /\ table.slots[i].token = token}

HoldsToken(table, token) == Holders(table, token) # {}

(* The slot consume takes: the first, in index order, that holds the token.*)
SlotOf(table, token) ==
  CHOOSE i \in Holders(table, token) : \A j \in Holders(table, token) : i <= j

PacketIdOf_Newest(table, token) ==
  table.slots[(table.write_index + TableSlots - 1) % TableSlots].packet_id

PacketIdOf(table, token) == table.slots[SlotOf(table, token)].packet_id

Consume_Peek(table, token) == table

Consume_FreesForNext(table, token) ==
  [table EXCEPT !.slots[SlotOf(table, token)] = None,
                !.write_index = SlotOf(table, token)]

(* The table after a consume that finds the token. *)
Consume(table, token) ==
  [next_token  |-> table.next_token,
   write_index |-> table.write_index,
   slots       |-> [table.slots EXCEPT ![SlotOf(table, token)] = None]]

(* The entries that can still be consumed. *)
Live(table) == {table.slots[i] : i \in TableSlot} \ {None}

=============================================================================
