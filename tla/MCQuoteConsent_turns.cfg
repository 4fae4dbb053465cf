SPECIFICATION Spec
CONSTANTS
    Texts <- Words
    Requests <- Kept
    Flows = {"name_gate", "quote_details", "post_quotation_hold", "other"}
INVARIANTS RefusalHolds WorkflowCoherent
PROPERTY GrantIsRead
