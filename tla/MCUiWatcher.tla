------------------------------- MODULE MCUiWatcher -------------------------------
EXTENDS UiWatcher
===============================================================================
