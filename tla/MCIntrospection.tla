--------------------------- MODULE MCIntrospection ---------------------------
(***************************************************************************)
(* An instance of Introspection.tla for TLC: a small shop, four tables in  *)
(* two schemas and a materialized view.                                    *)
(***************************************************************************)
EXTENDS Introspection

MCByName == <<"customers", "daily_sales", "invoice", "order_items", "orders">>
MCTable == ToSet(MCByName)
MCMatViews == {"daily_sales"}
MCSchemaOf == [t \in MCTable |-> IF t = "customers" THEN "crm" ELSE "sales"]
MCNamePos == [t \in MCTable |-> CHOOSE i \in DOMAIN MCByName : MCByName[i] = t]
MCPos == [t \in MCTable |-> MCNamePos[t] + (IF t \in MCMatViews THEN 10 ELSE 0)]
MCAttributes == [
  customers |-> <<"id", "country", "state">>,
  daily_sales |-> <<"status", "total">>,
  invoice |-> <<"id", "customer_id", "order_id", "line", "total", "status", "payment">>,
  order_items |-> <<"order_id", "line", "price">>,
  orders |-> <<"id", "customer_id", "invoice_id", "paid_at", "status">>]
MCColumn == UNION {ToSet(MCAttributes[t]) : t \in MCTable}
MCPk == [t \in MCTable |-> CASE t = "order_items" -> {"order_id", "line"}
                             [] t \in MCMatViews -> {} [] OTHER -> {"id"}]

ForeignKey(name, cols, target, to) ==
  [name |-> name, foreign |-> TRUE, cols |-> cols, target |-> target, to |-> to]
PrimaryKey(name, cols, t) ==
  [name |-> name, foreign |-> FALSE, cols |-> cols, target |-> t, to |-> cols]

Check(name, cols, t) ==
  [name |-> name, foreign |-> FALSE, cols |-> <<>>, target |-> t, to |-> cols]

MCKeyName == {"customer_fk", "item_fk", "order_fk", "orders_pkey"}

\* A key to another schema, a key that shares its name with the CHECK of another
\* table, a key within the schema, and the column orders.invoice_id, which is
\* named after a table and has no key.
MCConstraints == [
  customers |-> <<>>,
  daily_sales |-> <<>>,
  invoice |-> <<ForeignKey("customer_fk", <<"customer_id">>, "customers", <<"id">>),
                Check("item_fk", <<"total">>, "invoice"),
                ForeignKey("order_fk", <<"order_id">>, "orders", <<"id">>)>>,
  order_items |-> <<ForeignKey("item_fk", <<"order_id">>, "orders", <<"id">>)>>,
  orders |-> <<PrimaryKey("orders_pkey", <<"id">>, "orders")>>]

MCStemNames == [t \in MCTable |-> [c \in MCColumn |->
  IF c = "invoice_id" /\ t # "invoice" THEN "invoice" ELSE "no table"]]
MCSchemas == <<"crm", "sales">>
MCEngines == {"postgresql", "sqlserver"}
MCBlobCols == {"country"}
MCStatsCols == {"n_distinct", "null_frac", "most_common_vals", "most_common_freqs"}
MCSysCols == {"name", "column_id"}
=============================================================================
