---------------------------- MODULE MCKnowledgeMap ----------------------------
(***************************************************************************)
(* An instance of KnowledgeMap.tla for TLC: the tables of                  *)
(* MCIntrospection.tla with the patterns and presets that concern them.    *)
(***************************************************************************)
EXTENDS KnowledgeMap, MCIntrospection

MCNameOf == [c \in {"customer_id", "invoice_id", "order_id"} |->
  IF c = "invoice_id" THEN {"invoice"} ELSE {}]
MCPrefixOf == [c \in {"customer_id", "invoice_id", "order_id"} |->
  IF c = "order_id" THEN {"order_items"} ELSE {}]

MCDateCols == {"payment", "paid_at"}
MCNumeric == {"total", "price", "line"}
MCMonetary == {"total", "price"}
MCDateWants == <<{"payment"}, MCDateCols>>
MCStatusCols == [entity |-> {"state", "status", "paid_at"}, concept |-> {"state", "status"},
                 metric |-> {"state", "status"}]

\* A full name, a part of two tables' names, and a name of no table.
MCRawName == {"sales.orders", "order", "tickets"}
MCExact == [n \in MCRawName |-> IF n = "sales.orders" THEN "orders" ELSE "no table"]
MCWithin == [n \in MCRawName |-> IF n = "tickets" THEN {} ELSE
             IF n = "order" THEN {"order_items", "orders"} ELSE {"orders"}]

\* A schema's name is part of what a domain's keywords are looked for in.
MCRuleHits == [
  SALES |-> {"daily_sales", "invoice", "order_items", "orders"},
  CUSTOMERS |-> {"customers", "invoice", "orders"},
  BILLING |-> {"invoice"}]

\* The LLM answers with a code the rules have too, or with one of its own.
MCLLMCode == {"SALES", "VENTAS"}

MCEntityOf == [customers |-> "CUSTOMER", daily_sales |-> "no code", invoice |-> "INVOICE",
               order_items |-> "ORDER", orders |-> "ORDER"]
MCIsMain == [t \in MCTable |-> t \notin {"daily_sales", "order_items"}]

MCConcepts == {
  [code |-> "ACTIVE_CUSTOMER", hits |-> {"CUSTOMER"}],
  [code |-> "COMPLETED_SALE", hits |-> {"ORDER", "INVOICE", "orders", "order_items", "invoice"}],
  [code |-> "GROSS_PROFIT", hits |-> {"ORDER", "INVOICE"}]}

MCMetrics == {
  [code |-> "ACTIVE_CUSTOMER_COUNT", key |-> "customer", counts |-> TRUE, hint |-> {"id"},
   like |-> {"id", "customer_id", "order_id"}, filter |-> "status", concept |-> "ACTIVE_CUSTOMER"],
  [code |-> "REVENUE", key |-> "invoice", counts |-> FALSE, hint |-> {"total"},
   like |-> {"total"}, filter |-> "status", concept |-> "COMPLETED_SALE"],
  [code |-> "OVERDUE_INVOICE_AMOUNT", key |-> "invoice", counts |-> FALSE, hint |-> {"total"},
   like |-> {"total"}, filter |-> "overdue", concept |-> "OVERDUE_INVOICE"],
  [code |-> "ORDER_COUNT", key |-> "order", counts |-> TRUE, hint |-> {"id"},
   like |-> {"id", "customer_id", "order_id"}, filter |-> "none", concept |-> "no code"]}

MCKeyHits == <<[key |-> "customer", hits |-> {"CUSTOMER", "customers"}],
               [key |-> "order", hits |-> {"ORDER", "orders", "order_items"}],
               [key |-> "invoice", hits |-> {"INVOICE", "invoice"}]>>

\* A date column without a preset whose generic code a preset has as well.
MCPreset == [c \in MCColumn |->
  CASE c = "customer_id" -> "CUSTOMER" [] c = "country" -> "COUNTRY"
    [] c = "state" -> "REGION" [] c = "status" -> "STATUS" [] c = "paid_at" -> "PAYMENT_DATE"
    [] OTHER -> "no code"]
MCGenericCode == [c \in MCColumn |->
  CASE c = "payment" -> "PAYMENT_DATE" [] c = "paid_at" -> "PAID_AT_DATE" [] OTHER -> "OTHER_DATE"]

\* The name of a code, as the terminology compares it.
MCTerm == [
  SALES |-> "sales", CUSTOMERS |-> "customers", BILLING |-> "billing", VENTAS |-> "ventas",
  CUSTOMER |-> "customer", INVOICE |-> "invoice", ORDER |-> "order",
  ACTIVE_CUSTOMER |-> "active customer", COMPLETED_SALE |-> "completed sale",
  GROSS_PROFIT |-> "gross profit",
  ACTIVE_CUSTOMER_COUNT |-> "active customers", REVENUE |-> "revenue",
  OVERDUE_INVOICE_AMOUNT |-> "overdue invoices", ORDER_COUNT |-> "orders",
  COUNTRY |-> "country", REGION |-> "region", STATUS |-> "status", PAYMENT_DATE |-> "payment date"]
MCAliasesOf == [c \in DOMAIN MCTerm |->
  CASE c = "SALES" -> <<"ventas", "orders">> [] c = "ORDER" -> <<"orders">>
    [] c = "REVENUE" -> <<"ventas">> [] OTHER -> <<>>]
MCGlobalAliases == <<
  [key |-> "revenue", aliases |-> <<"ventas", "turnover">>],
  [key |-> "orders", aliases |-> <<"pedidos">>],
  [key |-> "billing", aliases |-> <<"facturacion">>]>>

MCNames == <<"ACTIVE_CUSTOMER", "ACTIVE_CUSTOMER_COUNT", "BILLING", "COMPLETED_SALE", "COUNTRY",
             "CUSTOMER", "CUSTOMERS", "GROSS_PROFIT", "INVOICE", "ORDER", "ORDER_COUNT",
             "OVERDUE_INVOICE_AMOUNT", "PAYMENT_DATE", "REGION", "REVENUE", "SALES", "STATUS",
             "VENTAS">>
MCNameRank == [c \in DOMAIN MCTerm |-> CHOOSE i \in DOMAIN MCNames : MCNames[i] = c]
MCSemanticCols == {"status", "tip"}

MCCodeWithin == [c \in DOMAIN MCTerm |->
  CASE c \in {"ACTIVE_CUSTOMER", "ACTIVE_CUSTOMER_COUNT"} -> {"CUSTOMER"}
    [] c = "OVERDUE_INVOICE_AMOUNT" -> {"INVOICE"} [] c = "ORDER_COUNT" -> {"ORDER"}
    [] OTHER -> {}]
MCFixedConcepts == {"ACTIVE_CUSTOMER", "COMPLETED_SALE"}
MCQuestions == {{"REVENUE", "ORDER_COUNT"}}
=============================================================================
