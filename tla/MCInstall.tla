----------------------------- MODULE MCInstall -----------------------------
\* One artifact that is fetched, one that maia ships, and an MCP: Promise.all has
\* company in either wave, and each kind of install its program. One edit by hand
\* brings the workspace into any state a crash could leave; one step may fail, or
\* the process be killed once, and undos may fail besides.
EXTENDS Install

CONSTANTS skill, otherSkill, tool, mcp, declared, disabled

MCRemoteSkills == {skill}
MCTwoSkills == {skill, otherSkill}
MCTools == {tool}
MCMcps == {mcp}
MCDeps == {declared, disabled}
MCDisabledDeps == {disabled}
MCInstallAndLock == {"install", "lock"}
=============================================================================
