--------------------------- MODULE MCRecordUpdate ---------------------------
(* Records, patches and symmetry for the small instances of RecordUpdate. *)
EXTENDS RecordUpdate, TLC

AllValues == {"none", "", "paid", "true", "false", "open", "c1", "c2", "n1", "a", "b"}

RecordWith(id, name, collective, status, note) ==
    [f \in Field |-> CASE f = "contactId" -> id
                       [] f = "contactName" -> name
                       [] f = "useCollectiveContact" -> collective
                       [] f = "voucherStatus" -> status
                       [] OTHER -> note]

\* A contact by id, open or paid, and a contact by name.
SomeRecords == {RecordWith("c1", "none", "false", "open", "a"),
                RecordWith("c1", "none", "false", "paid", "a"),
                RecordWith("none", "n1", "true", "open", "b")}

Keeping == [f \in Field |-> "keep"]

\* Each field alone, both ways of naming a contact at once, an id that is
\* empty, a derived status.
SomePatches == {[Keeping EXCEPT !["note"] = "b"],
                [Keeping EXCEPT !["contactId"] = "c2"],
                [Keeping EXCEPT !["contactName"] = "n1"],
                [Keeping EXCEPT !["contactId"] = ""],
                [Keeping EXCEPT !["contactId"] = "c2", !["contactName"] = "n1"],
                [Keeping EXCEPT !["voucherStatus"] = "open", !["note"] = "a"],
                [Keeping EXCEPT !["voucherStatus"] = "paid"]}

Symmetry == Permutations(Caller)

=============================================================================
