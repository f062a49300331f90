----------------------------- MODULE RowsProofs -----------------------------
(* The schema and the code agree on what a row may be. *)
EXTENDS Rows, TLAPS

\* The types of C++ hold what the column types of MySQL do.
Widths == /\ {MaxUInt64, MaxUInt32, MaxUInt8, MaxInt32, MaxInt16} \subseteq Nat
          /\ MaxUInt8 =< MaxUInt32 /\ MaxUInt32 =< MaxUInt64 /\ MaxInt16 =< MaxInt32

\* What is written for a value of an enumeration is one of the names the schema
\* has for the column, and is read back as that value.
Agree(toString, fromString, names) ==
  /\ DOMAIN fromString = names
  /\ \A value \in DOMAIN toString :
        toString[value] \in names /\ fromString[toString[value]] = value

\* Every value of every enumeration survives the table: toString and
\* ...FromString of Enums.cpp and the ENUMs of the schema agree.
THEOREM EnumsSurvive ==
  /\ Agree(RoleToString, RoleFromString, {"USER", "ADMIN"})
  /\ Agree(UserStatusToString, UserStatusFromString, {"ACTIVE", "DISABLED"})
  /\ Agree(ProductStatusToString, ProductStatusFromString,
           {"ON_SALE", "IN_FLASH_SALE", "SOLD", "OFF_SHELF"})
  /\ Agree(ActivityStatusToString, ActivityStatusFromString,
           {"PENDING", "ACTIVE", "ENDED", "CANCELED"})
  /\ Agree(OrderStatusToString, OrderStatusFromString, {"CREATED", "CANCELED"})
  /\ Agree(ReasonToString, ReasonFromString,
           {"FLASH_SALE_DEDUCT", "ORDER_CANCEL_RESTORE", "ADMIN_ADJUST"})
<1>1. Agree(RoleToString, RoleFromString, {"USER", "ADMIN"})
  BY DEF Agree, RoleToString, RoleFromString
<1>2. Agree(UserStatusToString, UserStatusFromString, {"ACTIVE", "DISABLED"})
  BY DEF Agree, UserStatusToString, UserStatusFromString
<1>3. Agree(ProductStatusToString, ProductStatusFromString,
            {"ON_SALE", "IN_FLASH_SALE", "SOLD", "OFF_SHELF"})
  BY DEF Agree, ProductStatusToString, ProductStatusFromString
<1>4. Agree(ActivityStatusToString, ActivityStatusFromString,
            {"PENDING", "ACTIVE", "ENDED", "CANCELED"})
  BY DEF Agree, ActivityStatusToString, ActivityStatusFromString
<1>5. Agree(OrderStatusToString, OrderStatusFromString, {"CREATED", "CANCELED"})
  BY DEF Agree, OrderStatusToString, OrderStatusFromString
<1>6. Agree(ReasonToString, ReasonFromString,
            {"FLASH_SALE_DEDUCT", "ORDER_CANCEL_RESTORE", "ADMIN_ADJUST"})
  BY DEF Agree, ReasonToString, ReasonFromString
<1> QED BY <1>1, <1>2, <1>3, <1>4, <1>5, <1>6

\* Numbers of a narrower range are among those of a wider one.
LEMMA Wider ==
  ASSUME NEW low \in Int, NEW high \in Int, NEW from \in Int, NEW to \in Int,
         from =< low, high =< to
  PROVE  Numbers(low, high) \subseteq Numbers(from, to)
BY DEF Numbers, Number

\* Every row that the schema admits is mapped without an exception: no list
\* and no lookup fails for what is in a table.
THEOREM RowsAreRead ==
  ASSUME Widths
  PROVE  /\ users \subseteq mapUser /\ products \subseteq mapProduct
         /\ flash_sale_activities \subseteq mapActivity /\ orders \subseteq mapOrder
         /\ inventory_logs \subseteq mapInventoryLog
<1>1. UnsignedBig \subseteq UInt64 /\ VarChar \subseteq String
  BY DEF UnsignedBig, UInt64, VarChar, String
<1>2. UnsignedInt \subseteq UInt32
  BY DEF Widths, UnsignedInt, UInt32, Numbers
<1>3. UnsignedTiny \subseteq UInt32
  BY DEF Widths, UnsignedTiny, UInt32, Numbers
<1>4. Small \subseteq Int32
  BY Wider DEF Widths, Small, Int32
<1>5. users \subseteq mapUser
  <2>1. Enum({"USER", "ADMIN"}) \subseteq NamedIn(RoleFromString)
    BY DEF Enum, NamedIn, RoleFromString
  <2>2. Enum({"ACTIVE", "DISABLED"}) \subseteq NamedIn(UserStatusFromString)
    BY DEF Enum, NamedIn, UserStatusFromString
  <2> QED
    BY <1>1, <2>1, <2>2 DEF users, mapUser
<1>6. products \subseteq mapProduct
  <2>1. Enum({"ON_SALE", "IN_FLASH_SALE", "SOLD", "OFF_SHELF"}) \subseteq NamedIn(ProductStatusFromString)
    BY DEF Enum, NamedIn, ProductStatusFromString
  <2> QED
    BY <1>1, <1>2, <2>1 DEF products, mapProduct
<1>7. flash_sale_activities \subseteq mapActivity
  <2>1. Enum({"PENDING", "ACTIVE", "ENDED", "CANCELED"}) \subseteq NamedIn(ActivityStatusFromString)
    BY DEF Enum, NamedIn, ActivityStatusFromString
  <2> QED
    BY <1>1, <1>2, <2>1 DEF flash_sale_activities, mapActivity
<1>8. orders \subseteq mapOrder
  <2>1. Enum({"CREATED", "CANCELED"}) \subseteq NamedIn(OrderStatusFromString)
    BY DEF Enum, NamedIn, OrderStatusFromString
  <2> QED
    BY <1>1, <1>2, <1>3, <2>1 DEF orders, mapOrder
<1>9. inventory_logs \subseteq mapInventoryLog
  <2>1. Enum({"FLASH_SALE_DEDUCT", "ORDER_CANCEL_RESTORE", "ADMIN_ADJUST"}) \subseteq NamedIn(ReasonFromString)
    BY DEF Enum, NamedIn, ReasonFromString
  <2> QED
    BY <1>1, <1>2, <1>4, <2>1 DEF inventory_logs, mapInventoryLog
<1> QED
  BY <1>5, <1>6, <1>7, <1>8, <1>9
=============================================================================
