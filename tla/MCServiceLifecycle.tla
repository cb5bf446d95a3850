-------------------------- MODULE MCServiceLifecycle --------------------------
EXTENDS ServiceLifecycle

MCWorkers == <<"project">>
=============================================================================
