---------------------------- MODULE MCWorkbench ----------------------------
\* The workflows of MCEngineControl, run from the workbench.
EXTENDS Workbench, MCEngineControl
=============================================================================
