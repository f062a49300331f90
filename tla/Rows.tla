-------------------------------- MODULE Rows --------------------------------
(***************************************************************************)
(* From the rows of the tables to the values of the program.  MySQL gives  *)
(* every column as text or NULL; the data access objects parse it into the *)
(* structures of the model, and throw where it does not parse.  The schema *)
(* says what a column may hold, the code what its reader takes: no row is  *)
(* in the way of its table if the first is part of the second.             *)
(***************************************************************************)
EXTENDS Integers

CONSTANTS MaxUInt64, MaxUInt32, MaxUInt8, MaxInt32, MaxInt16,   \* ends of the types
          Texts                                                 \* strings of characters

\* What a column may hold: the text of a number, any other text, or NULL.
Number(n) == [is |-> "number", number |-> n, text |-> "none"]
Text(x) == [is |-> "text", number |-> 0, text |-> x]
Null == [is |-> "null", number |-> 0, text |-> "none"]

Numbers(low, high) == {Number(n) : n \in low .. high}
-----------------------------------------------------------------------------
(* 02_schema.sql *)

UnsignedBig == Numbers(0, MaxUInt64)
UnsignedInt == Numbers(0, MaxUInt32)
UnsignedTiny == Numbers(0, MaxUInt8)
Small == Numbers(-MaxInt16 - 1, MaxInt16)
VarChar == {Text(x) : x \in Texts}
Enum(names) == {Text(x) : x \in names}

users == [id : UnsignedBig, username : VarChar, password_hash : VarChar,
          role : Enum({"USER", "ADMIN"}), status : Enum({"ACTIVE", "DISABLED"}),
          created_at : VarChar, updated_at : VarChar]

products == [id : UnsignedBig, product_no : VarChar, seller_id : UnsignedBig, title : VarChar,
             description : VarChar, original_price_cents : UnsignedInt,
             status : Enum({"ON_SALE", "IN_FLASH_SALE", "SOLD", "OFF_SHELF"}),
             created_at : VarChar, updated_at : VarChar]

flash_sale_activities ==
  [id : UnsignedBig, activity_no : VarChar, product_id : UnsignedBig, flash_price_cents : UnsignedInt,
   total_stock : UnsignedInt, available_stock : UnsignedInt, start_time : VarChar, end_time : VarChar,
   status : Enum({"PENDING", "ACTIVE", "ENDED", "CANCELED"}),
   created_at : VarChar, updated_at : VarChar]

orders == [id : UnsignedBig, order_no : VarChar, user_id : UnsignedBig, activity_id : UnsignedBig,
           product_id : UnsignedBig, product_title_snapshot : VarChar, purchase_price_cents : UnsignedInt,
           quantity : UnsignedTiny, total_amount_cents : UnsignedInt, status : Enum({"CREATED", "CANCELED"}),
           created_at : VarChar, updated_at : VarChar]

inventory_logs == [id : UnsignedBig, activity_id : UnsignedBig, order_id : UnsignedBig \cup {Null},
                   change_amount : Small, stock_after : UnsignedInt,
                   reason : Enum({"FLASH_SALE_DEDUCT", "ORDER_CANCEL_RESTORE", "ADMIN_ADJUST"}),
                   created_at : VarChar]
-----------------------------------------------------------------------------
(* The enumerations: what is written for a value, and read for a text. *)

RoleToString == [Admin |-> "ADMIN", User |-> "USER"]
RoleFromString == [USER |-> "User", ADMIN |-> "Admin"]

UserStatusToString == [Disabled |-> "DISABLED", Active |-> "ACTIVE"]
UserStatusFromString == [ACTIVE |-> "Active", DISABLED |-> "Disabled"]

ProductStatusToString == [OnSale |-> "ON_SALE", InFlashSale |-> "IN_FLASH_SALE",
                          Sold |-> "SOLD", OffShelf |-> "OFF_SHELF"]
ProductStatusFromString == [ON_SALE |-> "OnSale", IN_FLASH_SALE |-> "InFlashSale",
                            SOLD |-> "Sold", OFF_SHELF |-> "OffShelf"]

ActivityStatusToString == [Pending |-> "PENDING", Active |-> "ACTIVE",
                           Ended |-> "ENDED", Canceled |-> "CANCELED"]
ActivityStatusFromString == [PENDING |-> "Pending", ACTIVE |-> "Active",
                             ENDED |-> "Ended", CANCELED |-> "Canceled"]

OrderStatusToString == [Canceled |-> "CANCELED", Created |-> "CREATED"]
OrderStatusFromString == [CREATED |-> "Created", CANCELED |-> "Canceled"]

ReasonToString == [FlashSaleDeduct |-> "FLASH_SALE_DEDUCT",
                   OrderCancelRestore |-> "ORDER_CANCEL_RESTORE", AdminAdjust |-> "ADMIN_ADJUST"]
ReasonFromString == [FLASH_SALE_DEDUCT |-> "FlashSaleDeduct",
                     ORDER_CANCEL_RESTORE |-> "OrderCancelRestore", ADMIN_ADJUST |-> "AdminAdjust"]
-----------------------------------------------------------------------------
(* ResultRow and the mappers: the columns each reader takes without throwing. *)

String == {Text(x) : x \in Texts}
UInt64 == Numbers(0, MaxUInt64)
UInt32 == {Number(n) : n \in {k \in 0 .. MaxUInt64 : k =< MaxUInt32}}
Int32 == Numbers(-MaxInt32 - 1, MaxInt32)
NamedIn(fromString) == {Text(x) : x \in DOMAIN fromString}

mapUser == [id : UInt64, username : String, password_hash : String,
            role : NamedIn(RoleFromString), status : NamedIn(UserStatusFromString),
            created_at : String, updated_at : String]

mapProduct == [id : UInt64, product_no : String, seller_id : UInt64, title : String,
               description : String, original_price_cents : UInt32,
               status : NamedIn(ProductStatusFromString), created_at : String, updated_at : String]

mapActivity ==
  [id : UInt64, activity_no : String, product_id : UInt64, flash_price_cents : UInt32,
   total_stock : UInt32, available_stock : UInt32, start_time : String, end_time : String,
   status : NamedIn(ActivityStatusFromString), created_at : String, updated_at : String]

mapOrder == [id : UInt64, order_no : String, user_id : UInt64, activity_id : UInt64,
             product_id : UInt64, product_title_snapshot : String, purchase_price_cents : UInt32,
             quantity : UInt32, total_amount_cents : UInt32,
             status : NamedIn(OrderStatusFromString), created_at : String, updated_at : String]

\* isNull comes before the order is read.
mapInventoryLog == [id : UInt64, activity_id : UInt64, order_id : UInt64 \cup {Null},
                    change_amount : Int32, stock_after : UInt32,
                    reason : NamedIn(ReasonFromString), created_at : String]
=============================================================================
