------------------------------- MODULE Services -------------------------------
(***************************************************************************)
(* What sessions lean on: the storage engine (StorageEngine), the          *)
(* configuration file and its credentials (Settings), the MCP servers      *)
(* (McpHub), the services of the web tools (WebServices) and the framing   *)
(* of streamed bodies (Framing).  They meet only where a saved             *)
(* configuration is applied to the MCP servers and the web tools, which    *)
(* their own apply actions stand for, so a behaviour is about one of them, *)
(* chosen at its start; the others stand still.                            *)
(***************************************************************************)
EXTENDS StorageEngine, Settings, McpHub, WebServices, Framing

VARIABLE service

Service == {"storage", "settings", "mcp", "web", "framing"}

service_vars == <<storage_vars, settings_vars, mcp_vars, web_vars, framing_vars, service>>

ServicesInit ==
  /\ StorageInit /\ SettingsInit /\ McpInit /\ WebInit /\ FramingInit
  /\ service \in Service
  /\ service # "settings" => attempt.kind = "codex"
  /\ service # "mcp" => settings = CHOOSE any \in McpSettings : TRUE
  /\ service # "web" => web = CHOOSE any \in WebConfigs : TRUE
  /\ service # "framing" => framing = "sse"

ServicesNext ==
  /\ \/ /\ service = "storage" /\ StorageNext
        /\ UNCHANGED <<settings_vars, mcp_vars, web_vars, framing_vars>>
     \/ /\ service = "settings" /\ SettingsNext
        /\ UNCHANGED <<storage_vars, mcp_vars, web_vars, framing_vars>>
     \/ /\ service = "mcp" /\ McpNext
        /\ UNCHANGED <<storage_vars, settings_vars, web_vars, framing_vars>>
     \/ /\ service = "web" /\ WebNext
        /\ UNCHANGED <<storage_vars, settings_vars, mcp_vars, framing_vars>>
     \/ /\ service = "framing" /\ FramingNext
        /\ UNCHANGED <<storage_vars, settings_vars, mcp_vars, web_vars>>
  /\ UNCHANGED service

ServicesSpec == ServicesInit /\ [][ServicesNext]_service_vars

=============================================================================
