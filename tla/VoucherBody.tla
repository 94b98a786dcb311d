---------------------------- MODULE VoucherBody ----------------------------
(***************************************************************************)
(* The body update-voucher puts, as a function of the record it read and   *)
(* of the caller's fields: src/src/tools/vouchers.ts.  update-contact and  *)
(* update-article send what is left of it for a patch that names none of   *)
(* the three special fields.                                               *)
(*                                                                         *)
(* A record is a function on its leaf fields, so that deepMergePatch() is  *)
(* an overlay (module Merge shows that it is); "note" stands for every    *)
(* leaf without a rule of its own.  An absent field has the value "none",  *)
(* an empty string is ""; a patch says "keep" for a field it does not      *)
(* name.                                                                   *)
(***************************************************************************)

Field == {"contactId", "contactName", "useCollectiveContact",
          "voucherStatus", "note"}

\* One member of DERIVED_VOUCHER_STATUSES stands for all of them.
Derived == {"paid"}

CONSTANT Value  \* what a field can hold

ASSUME ValueAssumption == {"none", "", "paid", "true", "false"} \subseteq Value

Record == [Field -> Value]
Patch == [Field -> Value \cup {"keep"}]

Names(p, f) == p[f] # "keep"

\* Slip: the patch alone is sent, the rest of the record is wiped.
PatchOnly(cur, p) == [f \in Field |-> IF Names(p, f) THEN p[f] ELSE "none"]

\* deepMergePatch(current, fields).
Merged(cur, p) == [f \in Field |-> IF Names(p, f) THEN p[f] ELSE cur[f]]

\* A field that an `if` on it takes for given.
Sets(p, f) == Names(p, f) /\ p[f] # ""

\* Slip: the old contactId stays when a name is given.
ContactKept(b, p) ==
    IF Sets(p, "contactId")
    THEN [b EXCEPT !["contactName"] = "none", !["useCollectiveContact"] = "false"]
    ELSE b

\* A referenced contact and a contact name exclude each other: the one the
\* caller names wins, the id if both are.
ContactRule(b, p) ==
    IF Sets(p, "contactId")
    THEN [b EXCEPT !["contactName"] = "none", !["useCollectiveContact"] = "false"]
    ELSE IF Sets(p, "contactName")
    THEN [b EXCEPT !["contactId"] = "none", !["useCollectiveContact"] = "true"]
    ELSE b

\* A status Lexware derives from payments is left out unless the caller
\* asked for it.
StatusRule(b, p) ==
    IF ~Names(p, "voucherStatus") /\ b["voucherStatus"] \in Derived
    THEN [b EXCEPT !["voucherStatus"] = "none"] ELSE b

Body(cur, p) == StatusRule(ContactRule(Merged(cur, p), p), p)

-----------------------------------------------------------------------------
(* Lexware, as the comments of vouchers.ts describe it *)

\* A record names its contact in one way; an empty string names none.
OneContact(b) == \E f \in {"contactId", "contactName"} : b[f] \in {"none", ""}

\* A body is accepted unless it names the contact twice or sets a status
\* that is derived from payments.
Accepts(b) == OneContact(b) /\ b["voucherStatus"] \notin Derived

\* A PUT replaces the whole record, but for a status that was left out.
Stored(cur, b) ==
    IF b["voucherStatus"] = "none"
    THEN [b EXCEPT !["voucherStatus"] = cur["voucherStatus"]] ELSE b

\* The record after a caller's update, had it been made in one step.
Updated(cur, p) == Stored(cur, Body(cur, p))

=============================================================================
