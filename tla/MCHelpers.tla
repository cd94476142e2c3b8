----------------------------- MODULE MCHelpers -----------------------------
EXTENDS Helpers
AllPrograms == {"lat_pipe", "lat_fifo", "lat_unix", "lat_sem", "lat_fcntl", "lat_ctx",
                "bw_pipe", "bw_unix"}
=============================================================================
