---------------------------- MODULE MCLifecycle ----------------------------
EXTENDS Lifecycle
AllPrograms == DOMAIN Program
=============================================================================
