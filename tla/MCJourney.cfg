CONSTANTS
  Roots = {"request", "slot", "group", "sortingMap", "timer", "alarm", "calendar", "date",
           "bundle", "enabled"}
  ContentTypes = {"BASIC_TEXT", "CONVERSATION", "LONG_TEXT", "MEDIA", "MULTILINE", "PICTURE"}
  SlotTypes = {"UNKNOWN_TYPE", "SERVICE_INFORMATION"}
  RemindTypes = {"NONE", "ACTIVE_REMIND"}
SPECIFICATION JourneySpec
 
INVARIANT HeardAsTold
INVARIANT ArrivesAway
INVARIANT ScriptsSurviveScripts
CHECK_DEADLOCK FALSE
