CONSTANTS
    ReleaseMayFail = {"id", "channel", "cq_channel", "cq", "rcq_channel", "rcq", "raw", "raw_mr", "temp_id", "pd", "ep_id", "mr", "on_evch"}
SPECIFICATION Spec
INVARIANTS OwnsItsParts NoDoubleRelease ReleaseOrder DeletionReports
